---- MODULE Spec2Model ----
(***************************************************************************)
(* A model of the signal engine of the repository:                         *)
(*   - the streaming detector of src/websocket_stream.py                   *)
(*     (MexcWebSocketStream, MultiSymbolStream), specification Spec;       *)
(*   - the scoring engine generate_signals of src/signal_generator.py,     *)
(*     specification SpecScore;                                            *)
(*   - the confluence calculator multi_timeframe_analysis and              *)
(*     calculate_mtf_confluence of src/signal_generator.py, SpecMtf.       *)
(* The three parts share the variables; each specification moves its own   *)
(* part and leaves the others at their initial value.                      *)
(*                                                                         *)
(* Numbers: Python floats are modelled as exact fixed-point integers:      *)
(* sub-signal and category scores in tenths (0.5 is 5), weights in         *)
(* hundredths (0.3 is 30), weighted totals in thousandths (1.5 is 1500),   *)
(* strengths in ten-thousandths (1.0 is 10000). IEEE rounding of the float *)
(* sums is not modelled.                                                   *)
(***************************************************************************)
EXTENDS Integers, Sequences, FiniteSets, TLC

VARIABLES
    streams,           \* MultiSymbolStream.streams: symbol -> stream id, 0 = no entry
    global_callbacks,  \* MultiSymbolStream.global_callbacks
    objs,              \* the MexcWebSocketStream objects ever constructed
    workers,           \* the threads started by start_streaming
    ret,               \* what the caller's last manager call returned
    calls,             \* manager calls the caller has made so far
    fed,               \* kline messages the feed has delivered so far
    runs,              \* per stream: the current run of re-score directions
    gs,                \* generate_signals, or simple_backtest: the call in progress
    mtf                \* multi-timeframe analysis: the call in progress

vars == <<streams, global_callbacks, objs, workers, ret, calls, fed, runs, gs, mtf>>

(***************************************************************************)
(* Bounds of the model                                                     *)
(***************************************************************************)
\* The constructor's max_candles (default 1000) and the literal 50 of
\* process_message, scaled down; MinCandles < max_candles as in the code.
max_candles == 3
MinCandles == 2
\* Stream objects ever constructed, threads ever started, observers registered.
MaxStreams == 2
MaxWorkers == 2
MaxCallbacks == 2
\* Kline messages the feed delivers in all; manager calls the caller makes.
MaxMsgs == 4
MaxCalls == 3

Symbols == {"BTC_USDT", "ETH_USDT"}
Intervals == {"Min15", "Min60"}
\* The candles of the push.kline messages, named by the order of delivery
Candles == 1..MaxMsgs

None == "None"
\* last_signal is None (NoSignal) or holds the last emitted direction
NoSignal == <<>>
Some(x) == <<x>>
BUY == 1
SELL == -1
HOLD == 0

(***************************************************************************)
(* MexcWebSocketStream                                                     *)
(***************************************************************************)
\* __init__: a new stream object
NewStream(symbol, interval) ==
    [symbol |-> symbol, interval |-> interval,
     candle_buffer |-> <<>>, is_running |-> FALSE, callbacks |-> <<>>,
     last_signal |-> NoSignal, last_signal_time |-> None]

\* A deque without maxlen: what DequeAppend must not be.
DequeAppendUnbounded(buf, c) == Append(buf, c)

\* deque(maxlen=max_candles).append: a full deque drops its oldest element
DequeAppend(buf, c) ==
    IF Len(buf) >= max_candles THEN Append(Tail(buf), c) ELSE Append(buf, c)

\* add_callback
add_callback(o, cb) == [o EXCEPT !.callbacks = Append(@, cb)]

\* stop_streaming
stop_streaming(o) == [o EXCEPT !.is_running = FALSE]

Held == {streams[s] : s \in Symbols} \ {0}

\* The streams stop_streaming has returned for: remove_symbol and
\* stop_all_streams, its only callers, take the stream out of the manager.
Stopped == DOMAIN objs \ Held

NoRet == [op |-> "none", symbol |-> None, interval |-> None, stream |-> 0,
          existed |-> FALSE]

NoRun == [dir |-> HOLD, events |-> 0]

\* One more call of the caller (bounded by MaxCalls)
Called == calls < MaxCalls /\ calls' = calls + 1

\* A thread before start_streaming created it is absent from workers.
NewWorker(id) ==
    [obj |-> id, pc |-> "start", cur |-> HOLD, i |-> 0,
     reg |-> <<>>, called |-> <<>>, failed |-> 0,
     dropped |-> FALSE]

(***************************************************************************)
(* MultiSymbolStream: the caller's operations                              *)
(***************************************************************************)
\* An add_symbol without the membership test of line 180: it constructs and
\* stores a stream on every call. What AddSymbol must not be.
AddSymbolReplace(symbol, interval) ==
    /\ Called
    /\ Len(objs) < MaxStreams
    /\ objs' = Append(objs, NewStream(symbol, interval))
    /\ runs' = Append(runs, NoRun)
    /\ streams' = [streams EXCEPT ![symbol] = Len(objs) + 1]
    /\ ret' = [op |-> "add_symbol", symbol |-> symbol, interval |-> interval,
               stream |-> Len(objs) + 1, existed |-> streams[symbol] # 0]
    /\ UNCHANGED <<global_callbacks, workers, fed, gs, mtf>>

\* add_symbol(symbol, interval)
AddSymbol(symbol, interval) ==
    /\ Called
    /\ IF streams[symbol] = 0
       THEN /\ Len(objs) < MaxStreams
            /\ LET id == Len(objs) + 1
                   RECURSIVE withAll(_, _)
                   withAll(o, cbs) ==
                       IF cbs = <<>> THEN o
                       ELSE withAll(add_callback(o, Head(cbs)), Tail(cbs))
               IN /\ objs' = Append(objs,
                                 withAll(NewStream(symbol, interval), global_callbacks))
                  /\ runs' = Append(runs, NoRun)
                  /\ streams' = [streams EXCEPT ![symbol] = id]
                  /\ ret' = [op |-> "add_symbol", symbol |-> symbol,
                             interval |-> interval, stream |-> id, existed |-> FALSE]
       ELSE /\ ret' = [op |-> "add_symbol", symbol |-> symbol,
                       interval |-> interval, stream |-> streams[symbol],
                       existed |-> TRUE]
            /\ UNCHANGED <<streams, objs, runs>>
    /\ UNCHANGED <<global_callbacks, workers, fed, gs, mtf>>

\* remove_symbol(symbol)
RemoveSymbol(symbol) ==
    /\ Called
    /\ IF streams[symbol] # 0
       THEN /\ objs' = [objs EXCEPT ![streams[symbol]] = stop_streaming(@)]
            /\ streams' = [streams EXCEPT ![symbol] = 0]
            /\ ret' = [NoRet EXCEPT !.op = "remove_symbol", !.symbol = symbol,
                                    !.existed = TRUE]
       ELSE /\ ret' = [NoRet EXCEPT !.op = "remove_symbol", !.symbol = symbol]
            /\ UNCHANGED <<streams, objs>>
    /\ UNCHANGED <<global_callbacks, workers, fed, runs, gs, mtf>>

\* An add_global_callback without the loop of lines 200-201: the observer
\* reaches only the streams added later. What AddGlobalCallback must not be.
AddGlobalCallbackNoBackfill ==
    /\ Called
    /\ Len(global_callbacks) < MaxCallbacks
    /\ global_callbacks' = Append(global_callbacks, Len(global_callbacks) + 1)
    /\ ret' = NoRet
    /\ UNCHANGED <<streams, objs, workers, fed, runs, gs, mtf>>

\* add_global_callback(callback): the callbacks are named in the order of
\* their registration (the API server registers a new closure each time).
AddGlobalCallback ==
    /\ Called
    /\ Len(global_callbacks) < MaxCallbacks
    /\ LET cb == Len(global_callbacks) + 1
       IN /\ global_callbacks' = Append(global_callbacks, cb)
          /\ objs' = [id \in DOMAIN objs |->
                   IF id \in Held THEN add_callback(objs[id], cb) ELSE objs[id]]
    /\ ret' = NoRet
    /\ UNCHANGED <<streams, workers, fed, runs, gs, mtf>>

\* start_all_streams: start_streaming on every stream of the manager; each
\* call creates one more thread running connect_and_stream on that stream.
\* (On a manager without streams the call starts nothing.)
StartAllStreams ==
    /\ Called
    /\ Held # {}
    /\ Len(workers) + Cardinality(Held) <= MaxWorkers
    /\ LET RECURSIVE started(_, _)
           started(ws, ids) ==
               IF ids = {} THEN ws
               ELSE LET id == CHOOSE x \in ids : \A y \in ids : x <= y
                    IN started(Append(ws, NewWorker(id)), ids \ {id})
       IN workers' = started(workers, Held)
    /\ ret' = NoRet
    /\ UNCHANGED <<streams, global_callbacks, objs, fed, runs, gs, mtf>>

\* A stop_all_streams without the clear of line 216: the stopped streams stay
\* in the manager. What StopAllStreams must not be.
StopAllStreamsKeep ==
    /\ Called
    /\ objs' = [id \in DOMAIN objs |->
                   IF id \in Held THEN stop_streaming(objs[id]) ELSE objs[id]]
    /\ ret' = NoRet
    /\ UNCHANGED <<streams, global_callbacks, workers, fed, runs, gs, mtf>>

\* stop_all_streams
StopAllStreams ==
    /\ Called
    /\ objs' = [id \in DOMAIN objs |->
                   IF id \in Held THEN stop_streaming(objs[id]) ELSE objs[id]]
    /\ streams' = [s \in Symbols |-> 0]
    /\ ret' = NoRet
    /\ UNCHANGED <<global_callbacks, workers, fed, runs, gs, mtf>>

(***************************************************************************)
(* The worker thread: connect_and_stream, process_message, analyze_signals *)
(***************************************************************************)
\* websockets.connect and the subscription: on success is_running = True
\* (line 51); a failure is caught at line 65 and sets is_running = False
\* (the thread ends at "error", after the except clause).
WorkerConnect(w) ==
    /\ workers[w].pc = "start"
    /\ \E ok \in BOOLEAN :
          /\ workers' = [workers EXCEPT ![w].pc = IF ok THEN "recv" ELSE "error"]
          /\ objs' = [objs EXCEPT ![workers[w].obj].is_running = ok]
    /\ UNCHANGED <<calls, ret, streams, global_callbacks, fed, runs, gs, mtf>>

\* What the feed delivers: a well-formed push.kline message, text that is
\* not JSON, a push.kline message without one of the fields t, o, h, l, c, q
\* or with a value that is not a number, or a message of another channel.
Messages == {"kline", "invalid_json", "missing_field", "non_numeric", "other"}

Malformed == {"invalid_json", "missing_field", "non_numeric"}

\* async for message in websocket, lines 53-63, and process_message: the
\* next message, the is_running test of line 54, and for a push.kline
\* message the append of its candle (line 86) and the test of line 89. A
\* message that cannot be processed or is of another channel changes
\* nothing (FeedRecv below has the detail). A candle is named by its place in
\* the order of delivery, fed + 1.
WorkerRecv(w) ==
    /\ workers[w].pc = "recv"
    /\ LET id == workers[w].obj IN
       \E message \in Messages :
          IF ~objs[id].is_running
          THEN /\ workers' = [workers EXCEPT ![w].pc = "done"]
               /\ UNCHANGED <<fed, objs>>
          ELSE IF message # "kline" THEN UNCHANGED <<workers, fed, objs>>
          ELSE LET buf == DequeAppend(objs[id].candle_buffer, fed + 1)
               IN /\ fed < MaxMsgs
                  /\ fed' = fed + 1
                  /\ objs' = [objs EXCEPT ![id].candle_buffer = buf]
                  /\ workers' = [workers EXCEPT ![w].pc =
                         IF Len(buf) >= MinCandles THEN "analyze" ELSE "recv"]
    /\ UNCHANGED <<calls, ret, streams, global_callbacks, runs, gs, mtf>>

\* The feed ends: the iteration stops (closed = "ok"), or the connection
\* breaks and the exception is caught at line 65 (closed = "error").
WorkerClosed(w) ==
    /\ workers[w].pc = "recv"
    /\ \E closed \in {"ok", "error"} :
          /\ workers' = [workers EXCEPT ![w].pc = IF closed = "ok" THEN "done" ELSE "error"]
          /\ objs' = IF closed = "error"
                     THEN [objs EXCEPT ![workers[w].obj].is_running = FALSE]
                     ELSE objs
    /\ UNCHANGED <<calls, ret, streams, global_callbacks, fed, runs, gs, mtf>>

\* generate_signals, lines 174-177: the direction of a weighted total
\* (thousandths) against signal_threshold = 1.5
signal_threshold == 1500

\* A classification with the bounds included. What SignalOf must not be.
SignalOfInclusive(final_score) ==
    IF final_score >= signal_threshold THEN BUY
    ELSE IF final_score <= -signal_threshold THEN SELL
    ELSE HOLD

SignalOf(final_score) ==
    IF final_score > signal_threshold THEN BUY
    ELSE IF final_score < -signal_threshold THEN SELL
    ELSE HOLD

\* Weighted totals the re-score of a buffer may end with on its latest row:
\* the indicator library is a black box, so every total can follow any buffer.
RescoreTotals == {-2000, -1500, 0, 1500, 2000}

\* analyze_signals, lines 107-137: the re-score of the buffer and the test of
\* line 125. (A re-score that raises is caught at line 152 and leaves every
\* field of the stream as a row of total 0 does.)
WorkerAnalyze(w) ==
    /\ workers[w].pc = "analyze"
    /\ LET id == workers[w].obj IN
       \E final_score \in RescoreTotals :
             LET current_signal == SignalOf(final_score)
                 emit == current_signal # 0 /\ Some(current_signal) # objs[id].last_signal
                 n == IF emit THEN 1 ELSE 0
             IN /\ workers' = [workers EXCEPT ![w] =
                       IF emit
                       THEN [@ EXCEPT !.pc = "dispatch", !.cur = current_signal,
                                      !.i = 0, !.reg = objs[id].callbacks,
                                      !.called = <<>>, !.failed = 0]
                       ELSE [@ EXCEPT !.pc = "recv"]]
                /\ runs' = [runs EXCEPT ![id] =
                       IF current_signal = @.dir
                       THEN [@ EXCEPT !.events = @ + n]
                       ELSE [dir |-> current_signal, events |-> n]]
                /\ UNCHANGED objs
    /\ UNCHANGED <<calls, ret, streams, global_callbacks, fed, gs, mtf>>

\* analyze_signals, lines 140-147: the next callback of the list is called
\* with the event; an exception it raises is caught (FeedDispatch below has
\* the detail).
WorkerDispatch(w) ==
    /\ workers[w].pc = "dispatch"
    /\ workers[w].i < Len(objs[workers[w].obj].callbacks)
    /\ workers' = [workers EXCEPT
          ![w].i = @ + 1,
          ![w].called = Append(@, objs[workers[w].obj].callbacks[workers[w].i + 1])]
    /\ UNCHANGED <<calls, ret, streams, global_callbacks, objs, fed, runs, gs, mtf>>

\* A dispatch that ends without the assignment of line 149. What
\* WorkerCommit must not be.
WorkerCommitStale(w) ==
    /\ workers[w].pc = "dispatch"
    /\ workers[w].i >= Len(objs[workers[w].obj].callbacks)
    /\ objs' = [objs EXCEPT ![workers[w].obj].last_signal_time = "now"]
    /\ workers' = [workers EXCEPT ![w].pc = "recv", ![w].cur = HOLD, ![w].i = 0,
                                  ![w].reg = <<>>, ![w].called = <<>>,
                                  ![w].failed = 0]
    /\ UNCHANGED <<calls, ret, streams, global_callbacks, fed, runs, gs, mtf>>

\* analyze_signals, lines 149-150, after the loop over the callbacks
WorkerCommit(w) ==
    /\ workers[w].pc = "dispatch"
    /\ workers[w].i >= Len(objs[workers[w].obj].callbacks)
    /\ objs' = [objs EXCEPT ![workers[w].obj].last_signal = Some(workers[w].cur),
                            ![workers[w].obj].last_signal_time = "now"]
    /\ workers' = [workers EXCEPT ![w].pc = "recv", ![w].cur = HOLD, ![w].i = 0,
                                  ![w].reg = <<>>, ![w].called = <<>>,
                                  ![w].failed = 0]
    /\ UNCHANGED <<calls, ret, streams, global_callbacks, fed, runs, gs, mtf>>

(***************************************************************************)
(* The streaming specification                                             *)
(***************************************************************************)
GsIdle == [pc |-> "idle"]
MtfIdle == [pc |-> "idle"]

\* The manager as constructed, with the observers its caller registers
\* before the first subscription (add_global_callback on a manager without
\* streams, as cli.py does at line 220).
Init ==
    /\ streams = [s \in Symbols |-> 0]
    /\ \E n \in 0..MaxCallbacks : global_callbacks = [k \in 1..n |-> k]
    /\ objs = <<>>
    /\ workers = <<>>
    /\ ret = NoRet
    /\ calls = 0
    /\ fed = 0
    /\ runs = <<>>
    /\ gs = GsIdle
    /\ mtf = MtfIdle

Next ==
    \/ \E s \in Symbols, i \in Intervals : AddSymbol(s, i)
    \/ \E s \in Symbols : RemoveSymbol(s)
    \/ AddGlobalCallback
    \/ StartAllStreams
    \/ StopAllStreams
    \/ \E w \in DOMAIN workers : WorkerConnect(w)
    \/ \E w \in DOMAIN workers : WorkerRecv(w)
    \/ \E w \in DOMAIN workers : WorkerClosed(w)
    \/ \E w \in DOMAIN workers : WorkerAnalyze(w)
    \/ \E w \in DOMAIN workers : WorkerDispatch(w)
    \/ \E w \in DOMAIN workers : WorkerCommit(w)

Spec == Init /\ [][Next]_vars

(***************************************************************************)
(* The feed of one subscription in detail: what a message holds            *)
(***************************************************************************)
\* The candles of the feed are named by their start time t, 1 .. MaxTs
MaxTs == 3

Newest(buf) == CHOOSE t \in {buf[k] : k \in DOMAIN buf} : \A k \in DOMAIN buf : buf[k] <= t

\* The start time of the next push.kline message: the exchange pushes the
\* candle in progress again when it changes (the newest time once more),
\* then the next candle, and a feed that reconnects repeats an older one.
NextTimes(buf) ==
    IF buf = <<>> THEN {1}
    ELSE {t \in 1..MaxTs : Newest(buf) - 1 <= t /\ t <= Newest(buf) + 1}

\* A loop without the handlers of lines 60-63: the exception of a message
\* that cannot be processed reaches line 65 and ends the worker. What
\* FeedRecv must not be.
FeedRecvUncaught(w) ==
    /\ workers[w].pc = "recv"
    /\ LET id == workers[w].obj IN
       \E message \in Messages :
          IF ~objs[id].is_running
          THEN /\ workers' = [workers EXCEPT ![w].pc = "done"]
               /\ UNCHANGED <<fed, objs>>
          ELSE IF message \in Malformed
          THEN /\ workers' = [workers EXCEPT ![w].pc = "done", ![w].dropped = TRUE]
               /\ objs' = [objs EXCEPT ![id].is_running = FALSE]
               /\ UNCHANGED fed
          ELSE IF message = "other" THEN UNCHANGED <<workers, fed, objs>>
          ELSE \E t \in NextTimes(objs[id].candle_buffer) :
                  LET buf == DequeAppend(objs[id].candle_buffer, t)
                  IN /\ fed < MaxMsgs
                     /\ fed' = fed + 1
                     /\ objs' = [objs EXCEPT ![id].candle_buffer = buf]
                     /\ workers' = [workers EXCEPT
                            ![w].pc = IF Len(buf) >= MinCandles THEN "analyze" ELSE "recv",
                            ![w].dropped = FALSE]
    /\ UNCHANGED <<calls, ret, streams, global_callbacks, runs, gs, mtf>>

\* A loop that re-scores only a buffer of more than the minimum. What
\* FeedRecv must not be.
FeedRecvLate(w) ==
    /\ workers[w].pc = "recv"
    /\ LET id == workers[w].obj IN
       \E message \in Messages :
          IF ~objs[id].is_running
          THEN /\ workers' = [workers EXCEPT ![w].pc = "done"]
               /\ UNCHANGED <<fed, objs>>
          ELSE IF message \in Malformed
          THEN /\ workers' = [workers EXCEPT ![w].dropped = TRUE]
               /\ UNCHANGED <<fed, objs>>
          ELSE IF message = "other" THEN UNCHANGED <<workers, fed, objs>>
          ELSE \E t \in NextTimes(objs[id].candle_buffer) :
                  LET buf == DequeAppend(objs[id].candle_buffer, t)
                  IN /\ fed < MaxMsgs
                     /\ fed' = fed + 1
                     /\ objs' = [objs EXCEPT ![id].candle_buffer = buf]
                     /\ workers' = [workers EXCEPT
                            ![w].pc = IF Len(buf) > MinCandles THEN "analyze" ELSE "recv",
                            ![w].dropped = FALSE]
    /\ UNCHANGED <<calls, ret, streams, global_callbacks, runs, gs, mtf>>

\* Lines 53-63 and process_message, lines 69-90. json.loads raises on text
\* that is not JSON (line 60: continue). Building the candle of lines 76-83
\* raises on a missing field (KeyError) or on a value that is not a number
\* (ValueError) before the append of line 86, and line 62 catches it. A
\* message of another channel changes nothing. A well-formed push.kline
\* message has its candle appended whatever its start time (line 86 tests
\* nothing), and the buffer is re-scored when it holds the minimum (line
\* 89). dropped tells that the last message of the worker, those of other
\* channels aside, could not be processed; fed counts the candles.
FeedRecv(w) ==
    /\ workers[w].pc = "recv"
    /\ LET id == workers[w].obj IN
       \E message \in Messages :
          IF ~objs[id].is_running
          THEN /\ workers' = [workers EXCEPT ![w].pc = "done"]
               /\ UNCHANGED <<fed, objs>>
          ELSE IF message \in Malformed
          THEN /\ workers' = [workers EXCEPT ![w].dropped = TRUE]
               /\ UNCHANGED <<fed, objs>>
          ELSE IF message = "other" THEN UNCHANGED <<workers, fed, objs>>
          ELSE \E t \in NextTimes(objs[id].candle_buffer) :
                  LET buf == DequeAppend(objs[id].candle_buffer, t)
                  IN /\ fed < MaxMsgs
                     /\ fed' = fed + 1
                     /\ objs' = [objs EXCEPT ![id].candle_buffer = buf]
                     /\ workers' = [workers EXCEPT
                            ![w].pc = IF Len(buf) >= MinCandles THEN "analyze" ELSE "recv",
                            ![w].dropped = FALSE]
    /\ UNCHANGED <<calls, ret, streams, global_callbacks, runs, gs, mtf>>

\* A dispatch in which an exception of a callback is not caught at line 146
\* but at line 152, the end of analyze_signals. What FeedDispatch must not
\* be.
FeedDispatchUncaught(w) ==
    /\ workers[w].pc = "dispatch"
    /\ workers[w].i < Len(objs[workers[w].obj].callbacks)
    /\ \E raises \in BOOLEAN :
          workers' = [workers EXCEPT
             ![w].pc = IF raises THEN "recv" ELSE @,
             ![w].i = @ + 1,
             ![w].called = Append(@, objs[workers[w].obj].callbacks[workers[w].i + 1]),
             ![w].failed = IF raises /\ @ = 0 THEN workers[w].i + 1 ELSE @]
    /\ UNCHANGED <<calls, ret, streams, global_callbacks, objs, fed, runs, gs, mtf>>

\* analyze_signals, lines 140-147: the next callback of the list is called
\* (awaited when it is a coroutine function) with the event; it returns or
\* raises, and an Exception it raises is caught at line 146. failed is the
\* position of the first callback of this dispatch that raised, 0 if none.
FeedDispatch(w) ==
    /\ workers[w].pc = "dispatch"
    /\ workers[w].i < Len(objs[workers[w].obj].callbacks)
    /\ \E raises \in BOOLEAN :
          workers' = [workers EXCEPT
             ![w].i = @ + 1,
             ![w].called = Append(@, objs[workers[w].obj].callbacks[workers[w].i + 1]),
             ![w].failed = IF raises /\ @ = 0 THEN workers[w].i + 1 ELSE @]
    /\ UNCHANGED <<calls, ret, streams, global_callbacks, objs, fed, runs, gs, mtf>>

\* A manager after add_global_callback (any number of times),
\* add_symbol("BTC_USDT", "Min15") and start_all_streams, called once or
\* twice: one stream with the global callbacks, and its worker threads not
\* yet connected.
InitFeed ==
    /\ \E n \in 0..MaxCallbacks : global_callbacks = [k \in 1..n |-> k]
    /\ streams = [x \in Symbols |-> IF x = "BTC_USDT" THEN 1 ELSE 0]
    /\ objs = <<[NewStream("BTC_USDT", "Min15") EXCEPT !.callbacks = global_callbacks]>>
    /\ \E n \in {1, 2} : workers = [k \in 1..n |-> NewWorker(1)]
    /\ ret = NoRet
    /\ calls = MaxCalls
    /\ fed = 0
    /\ runs = <<NoRun>>
    /\ gs = GsIdle
    /\ mtf = MtfIdle

NextFeed ==
    \/ \E w \in DOMAIN workers : WorkerConnect(w)
    \/ \E w \in DOMAIN workers : FeedRecv(w)
    \/ \E w \in DOMAIN workers : WorkerClosed(w)
    \/ \E w \in DOMAIN workers : WorkerAnalyze(w)
    \/ \E w \in DOMAIN workers : FeedDispatch(w)
    \/ \E w \in DOMAIN workers : WorkerCommit(w)

SpecFeed == InitFeed /\ [][NextFeed]_vars

(***************************************************************************)
(* Claims about the streaming detector                                     *)
(***************************************************************************)
WorkersOf(id) == {w \in DOMAIN workers : workers[w].obj = id}

\* C1: for one subscription, at most one event is dispatched per contiguous
\* run of re-scores with the same non-HOLD latest-row direction, and a HOLD
\* re-score dispatches none. (Stated as the claim states it; two workers on
\* one stream break it.)
C1_AtMostOneEventPerRun ==
    \A id \in DOMAIN runs :
        /\ runs[id].events <= 1
        /\ runs[id].dir = HOLD => runs[id].events = 0

\* C1 restricted to the streams that only ever had one worker: this holds.
SingleWorkerOneEventPerRun ==
    \A id \in DOMAIN runs :
        Cardinality(WorkersOf(id)) <= 1 =>
            /\ runs[id].events <= 1
            /\ runs[id].dir = HOLD => runs[id].events = 0

\* C2: a re-score of an armed stream whose latest row is non-HOLD and differs
\* from last_signal dispatches the event to every callback registered on the
\* stream; when the dispatch ends last_signal is that direction and
\* last_signal_time is set; no other step changes last_signal.
C2_EmitDispatchesAndUpdates ==
    [][\A id \in DOMAIN objs :
          /\ objs'[id].last_signal # objs[id].last_signal =>
                \E w \in WorkersOf(id) :
                    workers[w].pc = "dispatch" /\ workers'[w].pc = "recv"
          /\ \A w \in WorkersOf(id) :
                /\ ( /\ workers[w].pc = "analyze" /\ workers'[w].pc # "analyze"
                     /\ runs'[id].dir # HOLD
                     /\ Some(runs'[id].dir) # objs[id].last_signal )
                   => /\ Len(objs[id].candle_buffer) >= MinCandles
                      /\ workers'[w].pc = "dispatch"
                      /\ workers'[w].cur = runs'[id].dir
                      /\ workers'[w].reg = objs[id].callbacks
                      /\ workers'[w].called = <<>>
                /\ (workers[w].pc = "dispatch" /\ workers'[w].pc # "dispatch")
                   => /\ Len(workers[w].called) >= Len(workers[w].reg)
                      /\ \A k \in 1..Len(workers[w].reg) :
                            workers[w].called[k] = workers[w].reg[k]
                      /\ objs'[id].last_signal = Some(workers[w].cur)
                      /\ objs'[id].last_signal_time # None
      ]_vars

\* C2's case: a dispatch to two callbacks has ended and last_signal is set.
C2_Witness ==
    \E id \in DOMAIN objs :
        /\ Len(objs[id].callbacks) >= 2
        /\ objs[id].last_signal # NoSignal
        /\ objs[id].last_signal_time # None

\* C3: the buffer never holds more than max_candles candles, and a candle
\* accepted by a full buffer removes the oldest one and goes to the end, the
\* others keeping their order.
C3_BufferBounded ==
    /\ [](\A id \in DOMAIN objs : Len(objs[id].candle_buffer) <= max_candles)
    /\ [][\A id \in DOMAIN objs :
             LET old == objs[id].candle_buffer
                 new == objs'[id].candle_buffer
             IN new # old =>
                   \E c \in Candles :
                       new = IF Len(old) = max_candles
                             THEN Tail(old) \o <<c>>
                             ELSE old \o <<c>>
         ]_vars

\* C3's case: a stream has accepted one candle more than its buffer holds.
C3_Witness ==
    /\ Len(objs) = 1
    /\ fed = max_candles + 1
    /\ Len(objs[1].candle_buffer) = max_candles
    /\ objs[1].candle_buffer = [k \in 1..max_candles |-> k + 1]

\* C4: once remove_symbol or stop_all_streams has returned, no worker of the
\* stream still holds its connection (waiting for a message, re-scoring or
\* dispatching).
C4_NoActiveWorkerAfterStop ==
    \A w \in DOMAIN workers :
        workers[w].obj \in Stopped =>
            workers[w].pc \notin {"recv", "analyze", "dispatch"}

\* C5: add_symbol for a pair that is subscribed returns the stream held and
\* changes neither the manager nor any stream; remove_symbol for an
\* instrument with no stream changes nothing.
C5_AddRemoveIdempotent ==
    [][/\ ( /\ calls' = calls + 1
            /\ ret'.op = "add_symbol"
            /\ streams[ret'.symbol] # 0
            /\ objs[streams[ret'.symbol]].interval = ret'.interval )
          => /\ ret'.stream = streams[ret'.symbol]
             /\ UNCHANGED <<streams, objs, global_callbacks, workers>>
       /\ ( /\ calls' = calls + 1
            /\ ret'.op = "remove_symbol"
            /\ streams[ret'.symbol] = 0 )
          => UNCHANGED <<streams, objs, global_callbacks, workers>>
      ]_vars

\* C5's case: add_symbol has returned a subscribed stream that holds candles.
C5_Witness ==
    /\ ret.op = "add_symbol"
    /\ ret.existed
    /\ objs[ret.stream].interval = ret.interval
    /\ objs[ret.stream].candle_buffer # <<>>

\* C6: the stream add_symbol returns carries the interval requested.
C6_ReturnedStreamHasRequestedInterval ==
    ret.op = "add_symbol" => objs[ret.stream].interval = ret.interval

(***************************************************************************)
(* generate_signals: the scoring of one row of the frame                   *)
(*                                                                         *)
(* The function is vectorised; every row goes through the same blocks in   *)
(* the same order, with the same use_price_action and indicator_weights.   *)
(* One action per block of the source; a block draws the cells it reads.   *)
(***************************************************************************)
\* A cell of the frame is NaN or a number
NaN == <<>>
Num(v) == <<v>>

\* pandas comparisons: False when either side is NaN
GT(a, b) == a # NaN /\ b # NaN /\ a[1] > b[1]
LT(a, b) == a # NaN /\ b # NaN /\ a[1] < b[1]
GE(a, b) == a # NaN /\ b # NaN /\ a[1] >= b[1]
LE(a, b) == a # NaN /\ b # NaN /\ a[1] <= b[1]

\* astype(int) of a boolean series
AsInt(b) == IF b THEN 1 ELSE 0

\* dict.get(key, default)
Get(d, key, default) == IF key \in DOMAIN d THEN d[key] ELSE default

Abs(x) == IF x < 0 THEN -x ELSE x

\* np.clip
Clip(x, lo, hi) == IF x < lo THEN lo ELSE IF x > hi THEN hi ELSE x

\* The cells the blocks read (shift() of the first rows is NaN)
MacdVals == {NaN, Num(0), Num(1)}
EmaVals == {NaN, Num(95), Num(100)}
AdxVals == {NaN, Num(20), Num(25), Num(30)}
Closes == {100}
BandVals == {NaN, Num(90), Num(100), Num(110)}
RsiVals == {NaN, Num(25), Num(50), Num(60), Num(75)}
WillrVals == {NaN, Num(-90), Num(-80), Num(-50), Num(-20), Num(-10)}
CciVals == {NaN, Num(-150), Num(-100), Num(0), Num(100), Num(150)}
ObvVals == {NaN, Num(1), Num(2)}
MfiVals == {NaN, Num(10), Num(20), Num(50), Num(80), Num(90)}

\* indicator_weights: the default of lines 21-27, and a caller's dict that
\* names three categories only (the others take the defaults of .get).
DefaultWeights ==
    [trend |-> 30, momentum |-> 25, volume |-> 20, volatility |-> 15,
     price_action |-> 10]
IndicatorWeights == {DefaultWeights, [trend |-> 300, momentum |-> 250, volume |-> 200]}

\* Sub-signal scores, in tenths; present = the block's columns are in the frame
MacdScore(present, macd, macds, pmacd, pmacds) ==
    IF ~present THEN 0
    ELSE LET macd_bullish == GT(macd, macds) /\ LE(pmacd, pmacds)
             macd_bearish == LT(macd, macds) /\ GE(pmacd, pmacds)
         IN AsInt(macd_bullish) * 20 - AsInt(macd_bearish) * 20

EmaScore(present, ema20, ema50) ==
    IF ~present THEN 0
    ELSE (AsInt(GT(ema20, ema50)) - AsInt(LT(ema20, ema50))) * 10

AdxScore(present, adx) ==
    IF ~present THEN 0 ELSE AsInt(GT(adx, Num(25))) * 5

PsarScore(present, close, psarl, psars) ==
    IF ~present THEN 0
    ELSE (AsInt(GT(Num(close), psarl)) - AsInt(LT(Num(close), psars))) * 10

RsiScore(present, rsi, prsi) ==
    IF ~present THEN 0
    ELSE LET rsi_oversold == LT(rsi, Num(30))
             rsi_overbought == GT(rsi, Num(70))
             rsi_bullish == GT(rsi, Num(50)) /\ LE(prsi, Num(50))
             rsi_bearish == LT(rsi, Num(50)) /\ GE(prsi, Num(50))
         IN (AsInt(rsi_oversold) * 2 - AsInt(rsi_overbought) * 2) * 10
            + (AsInt(rsi_bullish) - AsInt(rsi_bearish)) * 10

WillrScore(present, willr) ==
    IF ~present THEN 0
    ELSE (AsInt(LT(willr, Num(-80))) - AsInt(GT(willr, Num(-20)))) * 10

CciScore(present, cci) ==
    IF ~present THEN 0
    ELSE (AsInt(LT(cci, Num(-100))) - AsInt(GT(cci, Num(100)))) * 10

ObvScore(present, obv, obv5) ==
    IF ~present THEN 0
    ELSE (AsInt(GT(obv, obv5)) - AsInt(LT(obv, obv5))) * 10

MfiScore(present, mfi) ==
    IF ~present THEN 0
    ELSE (AsInt(LT(mfi, Num(20))) - AsInt(GT(mfi, Num(80)))) * 10

BbScore(present, close, lower, upper) ==
    IF ~present THEN 0
    ELSE (AsInt(LT(Num(close), lower)) - AsInt(GT(Num(close), upper))) * 10

KcScore(present, close, lower, upper) ==
    IF ~present THEN 0
    ELSE (AsInt(LT(Num(close), lower)) - AsInt(GT(Num(close), upper))) * 10

\* The four pattern columns are in the frame whenever use_price_action is
\* set: detect_candlestick_patterns (line 37) has just written them.
PriceActionScore(use_price_action, bull_engulf, bear_engulf, hammer, shooting_star) ==
    IF ~use_price_action THEN 0
    ELSE (AsInt(bull_engulf) * 2 - AsInt(bear_engulf) * 2
          + AsInt(hammer) - AsInt(shooting_star)) * 10

\* A total that adds the category scores without their weights. What
\* FinalScore must not be.
FinalScoreUnweighted(row) ==
    (row.trend_score + row.momentum_score + row.volume_score
     + row.volatility_score + row.price_action_score) * 100

\* lines 166-172: tenths times hundredths, a total in thousandths
FinalScore(row) ==
      row.trend_score * Get(row.indicator_weights, "trend", 30)
    + row.momentum_score * Get(row.indicator_weights, "momentum", 25)
    + row.volume_score * Get(row.indicator_weights, "volume", 20)
    + row.volatility_score * Get(row.indicator_weights, "volatility", 15)
    + row.price_action_score * Get(row.indicator_weights, "price_action", 10)

\* max_possible_score = 10, in thousandths; the strength 1.0, in ten-thousandths
max_possible_score == 10000
StrengthOne == 10000

\* A strength left as |total| / 10, without the clip of line 182. What
\* Strength must not be.
StrengthUnclipped(final_score) ==
    (Abs(final_score) * StrengthOne) \div max_possible_score

\* lines 181-182
Strength(final_score) ==
    Clip((Abs(final_score) * StrengthOne) \div max_possible_score, 0, StrengthOne)

\* A row before its blocks run: np.zeros for the scores (lines 42-46, 77,
\* 105, 123, 144), 0 and 0.0 for the outputs (lines 30-31)
GsRow(close, use_price_action, indicator_weights) ==
    [pc |-> "MACD", close |-> close, use_price_action |-> use_price_action,
     indicator_weights |-> indicator_weights,
     trend_score |-> 0, momentum_score |-> 0, volume_score |-> 0,
     volatility_score |-> 0, price_action_score |-> 0,
     final_score |-> 0, signal |-> HOLD, signal_strength |-> 0]

StreamingIdle ==
    /\ streams = [s \in Symbols |-> 0]
    /\ global_callbacks = <<>>
    /\ objs = <<>>
    /\ workers = <<>>
    /\ ret = NoRet
    /\ calls = 0
    /\ fed = 0
    /\ runs = <<>>

streamVars == <<streams, global_callbacks, objs, workers, ret, calls, fed, runs>>

GsMACD ==
    /\ gs.pc = "MACD"
    /\ \E present \in BOOLEAN, macd \in MacdVals, macds \in MacdVals,
          pmacd \in MacdVals, pmacds \in MacdVals :
          gs' = [gs EXCEPT !.pc = "EMA",
                           !.trend_score = @ + MacdScore(present, macd, macds, pmacd, pmacds)]
    /\ UNCHANGED <<streamVars, mtf>>

GsEMA ==
    /\ gs.pc = "EMA"
    /\ \E present \in BOOLEAN, ema20 \in EmaVals, ema50 \in EmaVals :
          gs' = [gs EXCEPT !.pc = "ADX",
                           !.trend_score = @ + EmaScore(present, ema20, ema50)]
    /\ UNCHANGED <<streamVars, mtf>>

GsADX ==
    /\ gs.pc = "ADX"
    /\ \E present \in BOOLEAN, adx \in AdxVals :
          gs' = [gs EXCEPT !.pc = "PSAR",
                           !.trend_score = @ + AdxScore(present, adx)]
    /\ UNCHANGED <<streamVars, mtf>>

GsPSAR ==
    /\ gs.pc = "PSAR"
    /\ \E present \in BOOLEAN, psarl \in BandVals, psars \in BandVals :
          gs' = [gs EXCEPT !.pc = "RSI",
                           !.trend_score = @ + PsarScore(present, gs.close, psarl, psars)]
    /\ UNCHANGED <<streamVars, mtf>>

GsRSI ==
    /\ gs.pc = "RSI"
    /\ \E present \in BOOLEAN, rsi \in RsiVals, prsi \in RsiVals :
          gs' = [gs EXCEPT !.pc = "WILLR",
                           !.momentum_score = @ + RsiScore(present, rsi, prsi)]
    /\ UNCHANGED <<streamVars, mtf>>

GsWILLR ==
    /\ gs.pc = "WILLR"
    /\ \E present \in BOOLEAN, willr \in WillrVals :
          gs' = [gs EXCEPT !.pc = "CCI",
                           !.momentum_score = @ + WillrScore(present, willr)]
    /\ UNCHANGED <<streamVars, mtf>>

GsCCI ==
    /\ gs.pc = "CCI"
    /\ \E present \in BOOLEAN, cci \in CciVals :
          gs' = [gs EXCEPT !.pc = "OBV",
                           !.momentum_score = @ + CciScore(present, cci)]
    /\ UNCHANGED <<streamVars, mtf>>

GsOBV ==
    /\ gs.pc = "OBV"
    /\ \E present \in BOOLEAN, obv \in ObvVals, obv5 \in ObvVals :
          gs' = [gs EXCEPT !.pc = "MFI",
                           !.volume_score = @ + ObvScore(present, obv, obv5)]
    /\ UNCHANGED <<streamVars, mtf>>

GsMFI ==
    /\ gs.pc = "MFI"
    /\ \E present \in BOOLEAN, mfi \in MfiVals :
          gs' = [gs EXCEPT !.pc = "BB",
                           !.volume_score = @ + MfiScore(present, mfi)]
    /\ UNCHANGED <<streamVars, mtf>>

GsBB ==
    /\ gs.pc = "BB"
    /\ \E present \in BOOLEAN, lower \in BandVals, upper \in BandVals :
          gs' = [gs EXCEPT !.pc = "KC",
                           !.volatility_score = @ + BbScore(present, gs.close, lower, upper)]
    /\ UNCHANGED <<streamVars, mtf>>

GsKC ==
    /\ gs.pc = "KC"
    /\ \E present \in BOOLEAN, lower \in BandVals, upper \in BandVals :
          gs' = [gs EXCEPT !.pc = "price_action",
                           !.volatility_score = @ + KcScore(present, gs.close, lower, upper)]
    /\ UNCHANGED <<streamVars, mtf>>

\* lines 147-163; of the patterns of detect_candlestick_patterns the two
\* engulfings exclude each other, and so do hammer and shooting star.
GsPriceAction ==
    /\ gs.pc = "price_action"
    /\ \E bullish_engulfing \in BOOLEAN, bearish_engulfing \in BOOLEAN,
          hammer \in BOOLEAN, shooting_star \in BOOLEAN :
          /\ ~(bullish_engulfing /\ bearish_engulfing)
          /\ ~(hammer /\ shooting_star)
          /\ gs' = [gs EXCEPT !.pc = "combine",
                              !.price_action_score = @ +
                                  PriceActionScore(gs.use_price_action, bullish_engulfing,
                                                   bearish_engulfing, hammer, shooting_star)]
    /\ UNCHANGED <<streamVars, mtf>>

\* lines 166-182
GsCombine ==
    /\ gs.pc = "combine"
    /\ LET final_score == FinalScore(gs)
       IN gs' = [gs EXCEPT !.pc = "done",
                           !.final_score = final_score,
                           !.signal = SignalOf(final_score),
                           !.signal_strength = Strength(final_score)]
    /\ UNCHANGED <<streamVars, mtf>>

\* The next row of the same call
GsNextRow ==
    /\ gs.pc = "done"
    /\ \E close \in Closes :
          gs' = GsRow(close, gs.use_price_action, gs.indicator_weights)
    /\ UNCHANGED <<streamVars, mtf>>

InitScore ==
    /\ StreamingIdle
    /\ \E close \in Closes, use_price_action \in BOOLEAN,
          indicator_weights \in IndicatorWeights :
          gs = GsRow(close, use_price_action, indicator_weights)
    /\ mtf = MtfIdle

NextScore ==
    \/ GsMACD
    \/ GsEMA
    \/ GsADX
    \/ GsPSAR
    \/ GsRSI
    \/ GsWILLR
    \/ GsCCI
    \/ GsOBV
    \/ GsMFI
    \/ GsBB
    \/ GsKC
    \/ GsPriceAction
    \/ GsCombine
    \/ GsNextRow

SpecScore == InitScore /\ [][NextScore]_vars

(***************************************************************************)
(* Claims about generate_signals                                           *)
(***************************************************************************)
\* C7: for every row, direction is BUY iff the weighted total is above 1.5,
\* SELL iff it is below -1.5, HOLD otherwise; so HOLD iff |total| <= 1.5.
C7_DirectionByThreshold ==
    gs.pc = "done" =>
        /\ gs.final_score = FinalScore(gs)
        /\ gs.signal = BUY <=> gs.final_score > 1500
        /\ gs.signal = SELL <=> gs.final_score < -1500
        /\ gs.signal = HOLD <=> Abs(gs.final_score) <= 1500
        /\ gs.signal \in {BUY, SELL, HOLD}

\* C7's case: a row whose total is exactly 1.5, scored HOLD.
C7_Witness ==
    /\ gs.pc = "done"
    /\ gs.final_score = 1500
    /\ gs.signal = HOLD

\* The totals of other rows a row's total is compared with in C8
OtherTotals == {250 * k : k \in -60..60}

\* C8: for every row strength = min(1, |total| / 10); it lies in [0, 1]; and
\* against any other row, the larger |total| never has the smaller strength.
C8_StrengthClamped ==
    gs.pc = "done" =>
        \* |total| / 10 in ten-thousandths is |total| in thousandths
        /\ gs.signal_strength =
              IF Abs(gs.final_score) > 10000 THEN 10000 ELSE Abs(gs.final_score)
        /\ gs.signal_strength >= 0
        /\ gs.signal_strength <= 10000
        /\ \A t \in OtherTotals :
              /\ Abs(t) >= Abs(gs.final_score) => Strength(t) >= gs.signal_strength
              /\ Abs(t) <= Abs(gs.final_score) => Strength(t) <= gs.signal_strength

\* C8's case: a row whose |total| is above 10, its strength clamped to 1.
C8_Witness ==
    /\ gs.pc = "done"
    /\ Abs(gs.final_score) > 10000
    /\ gs.signal_strength = 10000

(***************************************************************************)
(* multi_timeframe_analysis and calculate_mtf_confluence                   *)
(*                                                                         *)
(* mtf_results, a dict in insertion order, is a sequence of entries with   *)
(* distinct timeframes. A float that is a quotient is the rational         *)
(* [num, den] in lowest terms, den > 0.                                    *)
(***************************************************************************)
\* Entries of a mapping handed to calculate_mtf_confluence
MaxEntries == 3

Timeframes == {"Min15", "Hour1", "Hour4"}
TrendLabels == {"uptrend", "sideways"}
Strengths == {0, 3000, 8000, 10000}

\* timeframes requested of multi_timeframe_analysis: its default, a list in
\* another order, and a list that names a timeframe twice
Requests == {<<"Min15", "Hour1", "Hour4">>, <<"Hour4", "Min15">>, <<"Min15", "Min15">>}

\* Latest-row totals of generate_signals under the default weights
PipelineTotals == {-3000, 0, 1500, 3000}

\* timeframe_weights: the default of lines 330-339, and a caller's dict
DefaultTimeframeWeights ==
    [Min1 |-> 10, Min5 |-> 15, Min15 |-> 20, Min30 |-> 25, Min60 |-> 30,
     Hour4 |-> 50, Hour8 |-> 60, Day1 |-> 70]
TimeframeWeights == {DefaultTimeframeWeights, [Min15 |-> 0, Hour1 |-> 0]}

Entry(timeframe, signal, signal_strength, trend_structure) ==
    [timeframe |-> timeframe, signal |-> signal,
     signal_strength |-> signal_strength, trend_structure |-> trend_structure]

AllEntries ==
    {Entry(tf, sg, st, tr) : tf \in Timeframes, sg \in {BUY, SELL, HOLD},
                             st \in Strengths, tr \in TrendLabels}

Keys(results) == {results[i].timeframe : i \in DOMAIN results}

\* The mappings of at most n entries
RECURSIVE MappingsOf(_)
MappingsOf(n) ==
    IF n = 0 THEN {<<>>}
    ELSE LET shorter == MappingsOf(n - 1)
         IN shorter \cup
            {Append(p[1], p[2]) :
                p \in {q \in shorter \X AllEntries :
                          Len(q[1]) = n - 1 /\ q[2].timeframe \notin Keys(q[1])}}

\* mtf_results[timeframe] = {...}: a dict keeps the position of a key it holds
Put(results, e) ==
    IF e.timeframe \in Keys(results)
    THEN [i \in DOMAIN results |->
             IF results[i].timeframe = e.timeframe THEN e ELSE results[i]]
    ELSE Append(results, e)

NoOut == [final_signal |-> "none"]

RECURSIVE GCD(_, _)
GCD(a, b) == IF b = 0 THEN a ELSE GCD(b, a % b)

\* The quotient num / den, den > 0
Quotient(num, den) ==
    LET g == GCD(Abs(num), den)
    IN [num |-> num \div g, den |-> den \div g]

\* A loop that leaves the weight of a HOLD entry out of total_weight. What
\* ScoreLoop must not be.
RECURSIVE ScoreLoopSkipsHold(_, _, _)
ScoreLoopSkipsHold(entries, timeframe_weights, acc) ==
    IF entries = <<>> THEN acc
    ELSE LET results == Head(entries)
             weight == Get(timeframe_weights, results.timeframe, 10)
             weighted_signal == results.signal * results.signal_strength * weight
         IN ScoreLoopSkipsHold(Tail(entries), timeframe_weights,
                [total_score |-> acc.total_score + weighted_signal,
                 total_weight |-> acc.total_weight
                                    + (IF results.signal = HOLD THEN 0 ELSE weight)])

\* lines 341-355: the loop over mtf_results.items()
RECURSIVE ScoreLoop(_, _, _)
ScoreLoop(entries, timeframe_weights, acc) ==
    IF entries = <<>> THEN acc
    ELSE LET results == Head(entries)
             weight == Get(timeframe_weights, results.timeframe, 10)
             weighted_signal == results.signal * results.signal_strength * weight
         IN ScoreLoop(Tail(entries), timeframe_weights,
                [total_score |-> acc.total_score + weighted_signal,
                 total_weight |-> acc.total_weight + weight])

\* A quotient taken without the test of line 368, 0/0 left as it is. What
\* ConfluenceScore must not be.
ConfluenceScoreUnguarded(acc) ==
    IF acc.total_weight # 0
    THEN Quotient(acc.total_score, acc.total_weight * StrengthOne)
    ELSE [num |-> acc.total_score, den |-> 0]

\* lines 368-371: total_score is in ten-thousandths of a weight unit
ConfluenceScore(acc) ==
    IF acc.total_weight > 0
    THEN Quotient(acc.total_score, acc.total_weight * StrengthOne)
    ELSE Quotient(0, 1)

\* A classification with the bounds included. What FinalSignal must not be.
FinalSignalInclusive(confluence_score) ==
    IF confluence_score.num * 10 >= 3 * confluence_score.den THEN "BUY"
    ELSE IF confluence_score.num * 10 <= -3 * confluence_score.den THEN "SELL"
    ELSE "HOLD"

\* lines 374-379: the score against 0.3 = 3/10
FinalSignal(confluence_score) ==
    IF confluence_score.num * 10 > 3 * confluence_score.den THEN "BUY"
    ELSE IF confluence_score.num * 10 < -3 * confluence_score.den THEN "SELL"
    ELSE "HOLD"

\* lines 382-384. trends.count(label)
Count(trends, label) == Cardinality({i \in DOMAIN trends : trends[i] = label})

\* max(set(trends), key=trends.count) returns the first label of highest
\* count in the iteration order of a set of str, which the hash seed of the
\* process decides: any label of highest count.
TrendConsensus(trends) ==
    {l \in {trends[i] : i \in DOMAIN trends} :
        \A i \in DOMAIN trends : Count(trends, trends[i]) <= Count(trends, l)}

\* calculate_mtf_confluence: the dicts it may return
Confluence(mtf_results, timeframe_weights) ==
    LET acc == ScoreLoop(mtf_results, timeframe_weights,
                         [total_score |-> 0, total_weight |-> 0])
        confluence_score == ConfluenceScore(acc)
        trends == [i \in DOMAIN mtf_results |-> mtf_results[i].trend_structure]
    IN {[final_signal |-> FinalSignal(confluence_score),
         confluence_score |-> confluence_score,
         signal_strength |-> [num |-> Abs(confluence_score.num),
                              den |-> confluence_score.den],
         trend_consensus |-> trend_consensus,
         trend_agreement |-> IF trends = <<>> THEN Quotient(0, 1)
                             ELSE Quotient(Count(trends, trend_consensus), Len(trends)),
         timeframes_analyzed |-> Len(mtf_results)] :
            trend_consensus \in IF trends = <<>> THEN {"unknown"}
                                ELSE TrendConsensus(trends)}

\* The callers of multi_timeframe_analysis: main of cli.py with --mtf, and
\* get_mtf_analysis of api_server.py
Callers == {"cli", "api"}

\* A call of multi_timeframe_analysis by the CLI or the API server
MtfPipeline(caller, timeframes, use_price_action) ==
    [caller |-> caller, pc |-> "analysis", timeframes |-> timeframes,
     use_price_action |-> use_price_action, k |-> 1, fetched |-> <<>>,
     mtf_results |-> <<>>, timeframe_weights |-> DefaultTimeframeWeights,
     out |-> NoOut, answer |-> "none"]

\* A call of calculate_mtf_confluence(mtf_results, timeframe_weights)
MtfCall(mtf_results, timeframe_weights) ==
    [caller |-> "direct", pc |-> "confluence", timeframes |-> <<>>,
     use_price_action |-> TRUE, k |-> 1, fetched |-> <<>>,
     mtf_results |-> mtf_results, timeframe_weights |-> timeframe_weights,
     out |-> NoOut, answer |-> "none"]

\* multi_timeframe_analysis, lines 283-313: one iteration of the loop.
\* fetch_candles returns None ("none"), a frame of fewer than 50 rows
\* ("short"), or a frame that is scored ("data").
MtfAnalyse ==
    /\ mtf.pc = "analysis"
    /\ mtf.k <= Len(mtf.timeframes)
    /\ \E df \in {"none", "short", "data"}, final_score \in PipelineTotals,
          trend \in TrendLabels :
          LET timeframe == mtf.timeframes[mtf.k]
              latest_row == Entry(timeframe, SignalOf(final_score), Strength(final_score),
                                  IF mtf.use_price_action THEN trend ELSE "unknown")
          IN mtf' = [mtf EXCEPT
                       !.k = @ + 1,
                       !.fetched = Append(@, df),
                       !.mtf_results = IF df = "data" THEN Put(@, latest_row) ELSE @]
    /\ UNCHANGED <<streamVars, gs>>

\* The classes an except clause of class Exception catches: HTTPException
\* derives from Exception
Exceptions == {"Exception", "HTTPException", "KeyError", "ValueError"}

HTTPException(status_code, detail) ==
    [class |-> "HTTPException", status_code |-> status_code, detail |-> detail]

\* api_server.py lines 206-207: what leaves get_mtf_analysis when e is
\* raised inside the try of line 176. str(e) is left as the detail of e.
Handled(e) ==
    IF e.class \in Exceptions
    THEN HTTPException("500", e.detail)
    ELSE e

\* The caller's test of an empty mtf_results. cli.py lines 168-170 print
\* the message and return; api_server.py lines 189-190 raise
\* HTTPException(404) inside the try, and the answer of the endpoint is the
\* status of the exception that leaves the function.
NoData(caller) ==
    IF caller = "cli" THEN "No data available for multi-timeframe analysis"
    ELSE Handled(HTTPException("404", "No MTF data available")).status_code

\* The caller after multi_timeframe_analysis has returned: cli.py lines
\* 168-174, api_server.py lines 189-193
MtfReturn ==
    /\ mtf.pc = "analysis"
    /\ mtf.k > Len(mtf.timeframes)
    /\ mtf' = IF mtf.mtf_results = <<>>
              THEN [mtf EXCEPT !.pc = "nodata", !.answer = NoData(mtf.caller)]
              ELSE [mtf EXCEPT !.pc = "confluence"]
    /\ UNCHANGED <<streamVars, gs>>

\* calculate_mtf_confluence
MtfConfluence ==
    /\ mtf.pc = "confluence"
    /\ \E out \in Confluence(mtf.mtf_results, mtf.timeframe_weights) :
          mtf' = [mtf EXCEPT !.pc = "done", !.out = out]
    /\ UNCHANGED <<streamVars, gs>>

InitMtf ==
    /\ StreamingIdle
    /\ gs = GsIdle
    /\ \/ \E caller \in Callers, timeframes \in Requests, use_price_action \in BOOLEAN :
             mtf = MtfPipeline(caller, timeframes, use_price_action)
       \/ \E mtf_results \in MappingsOf(MaxEntries),
             timeframe_weights \in TimeframeWeights :
             mtf = MtfCall(mtf_results, timeframe_weights)

NextMtf ==
    \/ MtfAnalyse
    \/ MtfReturn
    \/ MtfConfluence

SpecMtf == InitMtf /\ [][NextMtf]_vars

(***************************************************************************)
(* Claims about the confluence calculator                                  *)
(***************************************************************************)
RECURSIVE SumOver(_, _)
SumOver(S, f) ==
    IF S = {} THEN 0
    ELSE LET x == CHOOSE y \in S : TRUE
         IN f[x] + SumOver(S \ {x}, f)

\* C9: confluence_score is the sum over the timeframes present in the input
\* of sign x strength x weight, divided by the sum of the weights of those
\* timeframes; a timeframe whose fetch failed or gave fewer than 50 rows is
\* not in the input.
C9_ScoreIsWeightedMean ==
    mtf.pc = "done" =>
        LET present == Keys(mtf.mtf_results)
            entry(tf) == CHOOSE e \in {mtf.mtf_results[i] : i \in DOMAIN mtf.mtf_results} :
                            e.timeframe = tf
            weight == [tf \in present |-> Get(mtf.timeframe_weights, tf, 10)]
            contribution == [tf \in present |->
                                entry(tf).signal * entry(tf).signal_strength * weight[tf]]
            numerator == SumOver(present, contribution)
            denominator == SumOver(present, weight)
            score == mtf.out.confluence_score
        IN /\ Cardinality(present) = Len(mtf.mtf_results)
           /\ denominator > 0 => score = Quotient(numerator, denominator * 10000)
           /\ mtf.caller \in Callers =>
                 present = {mtf.timeframes[i] : i \in {j \in DOMAIN mtf.timeframes :
                                                          mtf.fetched[j] = "data"}}

\* C9's case: an analysis that skipped a timeframe and scored two others,
\* with a score that is not 0.
C9_Witness ==
    /\ mtf.pc = "done"
    /\ mtf.caller \in Callers
    /\ \E i \in DOMAIN mtf.fetched : mtf.fetched[i] # "data"
    /\ Len(mtf.mtf_results) = 2
    /\ mtf.out.confluence_score.num # 0

\* C10: final_signal is BUY iff the score is above 0.3, SELL iff it is below
\* -0.3, HOLD otherwise; with strengths in [0, 1] and positive weights the
\* score lies in [-1, 1].
C10_FinalSignalByThreshold ==
    mtf.pc = "done" =>
        LET score == mtf.out.confluence_score
            entries == {mtf.mtf_results[i] : i \in DOMAIN mtf.mtf_results}
        IN /\ score.den > 0
           /\ mtf.out.final_signal = "BUY" <=> score.num * 10 > 3 * score.den
           /\ mtf.out.final_signal = "SELL" <=> score.num * 10 < -3 * score.den
           /\ mtf.out.final_signal = "HOLD" <=>
                 (score.num * 10 <= 3 * score.den /\ score.num * 10 >= -3 * score.den)
           /\ ( \A e \in entries :
                   /\ e.signal_strength >= 0 /\ e.signal_strength <= 10000
                   /\ Get(mtf.timeframe_weights, e.timeframe, 10) > 0 )
              => (score.num <= score.den /\ score.num >= -score.den)

\* C10's case: two timeframes whose score is exactly 0.3, classified HOLD.
C10_Witness ==
    /\ mtf.pc = "done"
    /\ Len(mtf.mtf_results) >= 2
    /\ mtf.out.confluence_score.num * 10 = 3 * mtf.out.confluence_score.den
    /\ mtf.out.final_signal = "HOLD"

\* The sum of the weights of the timeframes of a mapping
TotalWeightOf(mtf_results, timeframe_weights) ==
    SumOver(Keys(mtf_results),
            [tf \in Keys(mtf_results) |-> Get(timeframe_weights, tf, 10)])

\* C11: when the weights of the analysed timeframes add up to 0 (an empty
\* input included) calculate_mtf_confluence returns a result, with
\* confluence_score = 0 and final_signal = HOLD.
C11_ZeroWeightIsHold ==
    TotalWeightOf(mtf.mtf_results, mtf.timeframe_weights) = 0 =>
        /\ mtf.pc = "confluence" =>
              Confluence(mtf.mtf_results, mtf.timeframe_weights) # {}
        /\ mtf.pc = "done" =>
              /\ mtf.out.confluence_score = Quotient(0, 1)
              /\ mtf.out.final_signal = "HOLD"
              /\ mtf.out.timeframes_analyzed = Len(mtf.mtf_results)

\* C11's case: two timeframes of weight 0, one of them a BUY of strength 1.
C11_Witness ==
    /\ mtf.pc = "done"
    /\ Len(mtf.mtf_results) = 2
    /\ TotalWeightOf(mtf.mtf_results, mtf.timeframe_weights) = 0
    /\ \E i \in DOMAIN mtf.mtf_results :
          mtf.mtf_results[i].signal = BUY /\ mtf.mtf_results[i].signal_strength = 10000
    /\ mtf.out.final_signal = "HOLD"

(***************************************************************************)
(* Python floats.  total_score, total_weight and confluence_score of       *)
(* calculate_mtf_confluence are IEEE 754 binary64 numbers: every *, + and  *)
(* / of lines 359-369 rounds its exact result to 53 significant bits, ties *)
(* to even.  The definitions below compute exactly that.  A natural number *)
(* below Base^Limbs is a tuple of Limbs limbs in 0 .. Base - 1, the least  *)
(* significant first.  A float is a record [sign, m, e] of value           *)
(* (-1)^sign * m * 2^e whose m has exactly Precision bits, or is BigZero   *)
(* for zero.  Exponents stay far inside the binary64 range for the values  *)
(* used, so overflow, subnormals, infinities and NaN are not modelled, and *)
(* -0.0 is written 0.0 (they compare equal).                               *)
(***************************************************************************)
Base == 16384
LimbBits == 14
Limbs == 8
Precision == 53

Wide == 1..Limbs

BigZero == [i \in Wide |-> 0]

Limb(a, i) ==
    IF i \in Wide THEN a[i] ELSE 0

RECURSIVE CarryFrom(_, _, _)
\* The limbs from the i-th on of the number whose columns are c[1], c[2],
\* ... (any integers), k being the carry into column i
CarryFrom(c, i, k) ==
    IF i > Limbs THEN <<>>
    ELSE <<(c[i] + k) % Base>> \o CarryFrom(c, i + 1, (c[i] + k) \div Base)

\* The number whose columns are c[1], c[2], ... (any integers), as limbs
Carry(c) ==
    CarryFrom(c, 1, 0)

BigOfNat(n) ==
    Carry([i \in Wide |-> IF i = 1 THEN n ELSE 0])

BigOne == BigOfNat(1)

BigAdd(a, b) ==
    Carry([i \in Wide |-> a[i] + b[i]])

\* a - b, for a >= b
BigSub(a, b) ==
    Carry([i \in Wide |-> a[i] - b[i]])

\* a * d, for d in 0 .. Base
BigMulSmall(a, d) ==
    Carry([i \in Wide |-> a[i] * d])

\* a * b, for a and b below Base^4
BigMul(a, b) ==
    LET P(i, k) == IF k + 1 - i \in 1..4 THEN a[i] * b[k + 1 - i] ELSE 0
    IN  Carry([k \in Wide |-> P(1, k) + P(2, k) + P(3, k) + P(4, k)])

\* a * 2^k
BigShl(a, k) ==
    LET ls == k \div LimbBits
        bs == k % LimbBits
    IN  Carry([i \in Wide |-> Limb(a, i - ls) * 2 ^ bs])

\* floor(a / 2^k)
BigShr(a, k) ==
    LET ls == k \div LimbBits
        bs == k % LimbBits
    IN  [i \in Wide |-> (Limb(a, i + ls) \div 2 ^ bs)
                         + (Limb(a, i + ls + 1) % 2 ^ bs) * 2 ^ (LimbBits - bs)]

\* 1, 0 or -1 as a is above, equal to or below b
BigCmp(a, b) ==
    LET D == {i \in Wide : a[i] # b[i]}
        i == CHOOSE j \in D : \A l \in D : l <= j
    IN  IF D = {} THEN 0 ELSE IF a[i] > b[i] THEN 1 ELSE -1

BitsOf(n) ==
    CHOOSE k \in 0..LimbBits : n < 2 ^ k /\ (k = 0 \/ n >= 2 ^ (k - 1))

BitLength(a) ==
    LET D == {i \in Wide : a[i] # 0}
        i == CHOOSE j \in D : \A l \in D : l <= j
    IN  IF D = {} THEN 0 ELSE LimbBits * (i - 1) + BitsOf(a[i])

IsOdd(a) ==
    a[1] % 2 = 1

\* The largest d with b * d <= r, for b below Base^4 with a top limb of at
\* least Base / 2 and r < b * Base: the quotient of the top limbs is d,
\* d + 1 or d + 2
QLimb(r, b) ==
    LET qh == (r[5] * Base + r[4]) \div b[4]
        q0 == IF qh > Base - 1 THEN Base - 1 ELSE qh
    IN  IF BigCmp(BigMulSmall(b, q0), r) <= 0 THEN q0
        ELSE IF BigCmp(BigMulSmall(b, q0 - 1), r) <= 0 THEN q0 - 1
        ELSE q0 - 2

RECURSIVE DivLimbs(_, _, _, _)
RECURSIVE DivDigit(_, _, _, _, _)

\* The quotient rest with d for its limb i
PutDigit(rest, i, d) ==
    [q |-> [rest.q EXCEPT ![i] = d], r |-> rest.r]

\* long division from limb i of a downwards, r the remainder so far (r < b)
DivLimbs(a, b, i, r) ==
    IF i = 0
    THEN [q |-> BigZero, r |-> r]
    ELSE DivDigit(a, b, i, [j \in Wide |-> IF j = 1 THEN a[i] ELSE r[j - 1]],
                  QLimb([j \in Wide |-> IF j = 1 THEN a[i] ELSE r[j - 1]], b))

\* the step of the long division at limb i: d is the quotient digit of the
\* running remainder cur
DivDigit(a, b, i, cur, d) ==
    IF d = 0 THEN DivLimbs(a, b, i - 1, cur)
    ELSE PutDigit(DivLimbs(a, b, i - 1, BigSub(cur, BigMulSmall(b, d))), i, d)

\* quotient and remainder of a by b, both scaled by 2^s before the division
DivScaled(qr, s) ==
    [q |-> qr.q, r |-> BigShr(qr.r, s)]

\* quotient and remainder of a by b, for b of s bits less than four limbs
DivShifted(a, b, s) ==
    DivScaled(DivLimbs(BigShl(a, s), BigShl(b, s), Limbs, BigZero), s)

\* quotient and remainder of a by b, for b of 43 to 56 bits and a below
\* b * Base^4; both are first scaled to fill the fourth limb of b
BigDivMod(a, b) ==
    DivShifted(a, b, 4 * LimbBits - BitLength(b))

FZero == [sign |-> 0, m |-> BigZero, e |-> 0]

\* The float (-1)^sign * q1 * 2^E for q1 of Precision bits, or of one bit
\* more after a rounding that carried
Renorm(sign, q1, E) ==
    IF BitLength(q1) > Precision
    THEN [sign |-> sign, m |-> BigShr(q1, 1), e |-> E + 1]
    ELSE [sign |-> sign, m |-> q1, e |-> E]

\* q rounded up when the part cut off is above a half (c = 1), or is a half
\* (c = 0) and q is odd
Nearest(sign, q, c, E) ==
    Renorm(sign, IF c = 1 \/ (c = 0 /\ IsOdd(q)) THEN BigAdd(q, BigOne) ELSE q, E)

\* M without its k lowest bits, rounded by them
CutBits(sign, M, E, k) ==
    Nearest(sign, BigShr(M, k),
            BigCmp(BigSub(M, BigShl(BigShr(M, k), k)), BigShl(BigOne, k - 1)), E + k)

\* The float nearest to (-1)^sign * M * 2^E for M of n bits
RoundBits(sign, M, E, n) ==
    IF n = 0 THEN FZero
    ELSE IF n <= Precision
    THEN [sign |-> sign, m |-> BigShl(M, Precision - n), e |-> E - (Precision - n)]
    ELSE CutBits(sign, M, E, n - Precision)

\* The float nearest to (-1)^sign * M * 2^E, ties to the even mantissa
RoundTo(sign, M, E) ==
    RoundBits(sign, M, E, BitLength(M))

\* float(n) of a Python int below 2^31 in size
FOfInt(n) ==
    RoundTo(IF n < 0 THEN 1 ELSE 0, BigOfNat(IF n < 0 THEN -n ELSE n), 0)

FNeg(a) ==
    IF a.m = BigZero THEN a ELSE [a EXCEPT !.sign = 1 - a.sign]

FAbs(a) ==
    [a EXCEPT !.sign = 0]

\* a * b
FMul(a, b) ==
    RoundTo((a.sign + b.sign) % 2, BigMul(a.m, b.m), a.e + b.e)

\* A + B or the difference of A and B, two mantissas of exponent e, with
\* the sign of the larger
AddAligned(sa, A, sb, B, e) ==
    IF sa = sb THEN RoundTo(sa, BigAdd(A, B), e)
    ELSE IF BigCmp(A, B) = 1 THEN RoundTo(sa, BigSub(A, B), e)
    ELSE RoundTo(sb, BigSub(B, A), e)

\* a + b for a and b of exponents at least e
AddAt(a, b, e) ==
    AddAligned(a.sign, BigShl(a.m, a.e - e), b.sign, BigShl(b.m, b.e - e), e)

\* a + b; an operand more than Precision + 2 binary places below the other
\* does not change it
FAdd(a, b) ==
    IF a.m = BigZero THEN b
    ELSE IF b.m = BigZero THEN a
    ELSE IF a.e - b.e > Precision + 2 THEN a
    ELSE IF b.e - a.e > Precision + 2 THEN b
    ELSE AddAt(a, b, IF a.e < b.e THEN a.e ELSE b.e)

\* The quotient qr.q with one more bit, which is 1 when a remainder is left
Sticky(qr) ==
    BigAdd(BigMulSmall(qr.q, 2), IF qr.r = BigZero THEN BigZero ELSE BigOne)

\* a / b, for b # 0: the quotient of the mantissas to 56 or 57 bits, and one
\* more bit that is 1 when a remainder is left
FDiv(a, b) ==
    IF a.m = BigZero THEN FZero
    ELSE RoundTo((a.sign + b.sign) % 2,
                 Sticky(BigDivMod(BigShl(a.m, Precision + 3), b.m)),
                 a.e - b.e - (Precision + 4))

\* a > 0
FPositive(a) ==
    a.m # BigZero /\ a.sign = 0

\* a > b
FGt(a, b) ==
    FPositive(FAdd(a, FNeg(b)))

\* a < b
FLt(a, b) ==
    FGt(b, a)

\* The float a decimal literal n/d denotes
FLit(n, d) ==
    FDiv(FOfInt(n), FOfInt(d))

(***************************************************************************)
(* calculate_mtf_confluence in float arithmetic.  Weights and strengths    *)
(* are written in hundredths and denote the float of that decimal literal: *)
(* 0.15 is FLit(15, 100).                                                  *)
(***************************************************************************)
\* signal_strength values of the latest row: 0.25, 0.33 and 0.8
FloatStrengths == {25, 33, 80}

FloatEntries ==
    {Entry(tf, sg, FLit(st, 100), "uptrend") :
        tf \in Timeframes, sg \in {BUY, HOLD}, st \in FloatStrengths}

\* The mappings that hold every timeframe of the default request, in every
\* insertion order
FloatMappings ==
    {r \in FloatEntries \X FloatEntries \X FloatEntries : Keys(r) = Timeframes}

\* The same entries inserted in another order
Reorderings(results) ==
    {[i \in DOMAIN results |-> results[p[i]]] : p \in Permutations(DOMAIN results)}

\* lines 348-365: one entry added to the totals
AddEntryFloat(acc, results, weight) ==
    [total_score |-> FAdd(acc.total_score,
                          FMul(FMul(FOfInt(results.signal), results.signal_strength), weight)),
     total_weight |-> FAdd(acc.total_weight, weight)]

\* lines 346-365, with the rounding of every operation
RECURSIVE ScoreLoopFloat(_, _, _)
ScoreLoopFloat(entries, timeframe_weights, acc) ==
    IF entries = <<>> THEN acc
    ELSE ScoreLoopFloat(Tail(entries), timeframe_weights,
            AddEntryFloat(acc, Head(entries),
                FLit(Get(timeframe_weights, Head(entries).timeframe, 10), 100)))

\* lines 367-371
ConfluenceScoreFloat(acc) ==
    IF FGt(acc.total_weight, FZero)
    THEN FDiv(acc.total_score, acc.total_weight)
    ELSE FZero

\* lines 373-379
FinalSignalFloat(confluence_score) ==
    IF FGt(confluence_score, FLit(3, 10)) THEN "BUY"
    ELSE IF FLt(confluence_score, FNeg(FLit(3, 10))) THEN "SELL"
    ELSE "HOLD"

\* lines 381-394: the dicts returned for a confluence_score
ResultsFloat(mtf_results, confluence_score, trends) ==
    {[final_signal |-> FinalSignalFloat(confluence_score),
      confluence_score |-> confluence_score,
      signal_strength |-> FAbs(confluence_score),
      trend_consensus |-> trend_consensus,
      trend_agreement |-> IF trends = <<>> THEN FZero
                          ELSE FDiv(FOfInt(Count(trends, trend_consensus)), FOfInt(Len(trends))),
      timeframes_analyzed |-> Len(mtf_results)] :
         trend_consensus \in IF trends = <<>> THEN {"unknown"}
                             ELSE TrendConsensus(trends)}

\* calculate_mtf_confluence: the dicts it may return
ConfluenceFloat(mtf_results, timeframe_weights) ==
    ResultsFloat(mtf_results,
        ConfluenceScoreFloat(ScoreLoopFloat(mtf_results, timeframe_weights,
                                 [total_score |-> FZero, total_weight |-> FZero])),
        [i \in DOMAIN mtf_results |-> mtf_results[i].trend_structure])

\* A call of calculate_mtf_confluence(mtf_results); first is what an
\* earlier call on the same entries returned
FloatCall(mtf_results, first) ==
    [pc |-> "confluence", mtf_results |-> mtf_results,
     timeframe_weights |-> DefaultTimeframeWeights, out |-> NoOut, first |-> first]

\* calculate_mtf_confluence runs and returns
FloatConfluence ==
    /\ mtf.pc = "confluence"
    /\ \E out \in ConfluenceFloat(mtf.mtf_results, mtf.timeframe_weights) :
          mtf' = [mtf EXCEPT !.pc = "done", !.out = out]
    /\ UNCHANGED <<streamVars, gs>>

\* The caller passes the same entries again, inserted in any order
FloatCallReordered ==
    /\ mtf.pc = "done"
    /\ mtf.first = NoOut
    /\ \E r \in Reorderings(mtf.mtf_results) : mtf' = FloatCall(r, mtf.out)
    /\ UNCHANGED <<streamVars, gs>>

InitFloat ==
    /\ StreamingIdle
    /\ gs = GsIdle
    /\ \E mtf_results \in FloatMappings : mtf = FloatCall(mtf_results, NoOut)

NextFloat ==
    \/ FloatConfluence
    \/ FloatCallReordered

SpecFloat == InitFloat /\ [][NextFloat]_vars

\* C12: confluence_score, and therefore final_signal, is the same for every
\* ordering of the entries of the input mapping.
C12_OrderIndependent ==
    mtf.pc = "done" /\ mtf.first # NoOut =>
        /\ mtf.out.confluence_score = mtf.first.confluence_score
        /\ mtf.out.final_signal = mtf.first.final_signal

\* The label of highest count that comes first in the order of the input
FirstMostFrequent(trends) ==
    LET best == {i \in DOMAIN trends :
                    \A j \in DOMAIN trends : Count(trends, trends[j]) <= Count(trends, trends[i])}
    IN  trends[CHOOSE i \in best : \A j \in best : i <= j]

\* C13: trend_consensus is the most frequent trend label of the analysed
\* timeframes, a tie going to the label met first in the order of the input;
\* trend_agreement is the share of the timeframes with that label, and 0
\* when no timeframe was analysed.
C13_ConsensusIsFirstMostFrequent ==
    mtf.pc = "done" =>
        LET trends == [i \in DOMAIN mtf.mtf_results |-> mtf.mtf_results[i].trend_structure]
        IN  IF trends = <<>>
            THEN mtf.out.trend_agreement = Quotient(0, 1)
            ELSE /\ mtf.out.trend_consensus = FirstMostFrequent(trends)
                 /\ mtf.out.trend_agreement
                       = Quotient(Count(trends, mtf.out.trend_consensus), Len(trends))

\* C14: an observer that raises (called or awaited) is caught for that
\* observer only: the dispatch goes on with the same event, every observer
\* of the stream is invoked, the worker returns to reading, and last_signal
\* is updated all the same.
C14_ObserverFailureIsolated ==
    [][\A w \in DOMAIN workers :
          LET id == workers[w].obj IN
          /\ (workers[w].pc = "dispatch" /\ workers[w].failed = 0 /\ workers'[w].failed # 0)
                => /\ workers'[w].pc = "dispatch"
                   /\ workers'[w].cur = workers[w].cur
                   /\ workers'[w].i = workers[w].i + 1
                   /\ objs'[id] = objs[id]
          /\ (workers[w].pc = "dispatch" /\ workers[w].failed # 0 /\ workers'[w].pc # "dispatch")
                => /\ workers'[w].pc = "recv"
                   /\ \A k \in DOMAIN objs[id].callbacks :
                         k \in DOMAIN workers[w].called
                            /\ workers[w].called[k] = objs[id].callbacks[k]
                   /\ objs'[id].last_signal = Some(workers[w].cur)
                   /\ objs'[id].is_running = objs[id].is_running]_vars

\* C14's case: the first of two observers raised and the second was invoked.
C14_Witness ==
    \E w \in DOMAIN workers :
        /\ workers[w].pc = "dispatch"
        /\ workers[w].failed = 1
        /\ Len(workers[w].called) = 2
        /\ Len(objs[workers[w].obj].callbacks) = 2

\* C15: a message that cannot be processed (text that is not JSON, a
\* push.kline message with a field missing or a value that is not a number)
\* is dropped: the buffer, last_signal and the callbacks stay as they are,
\* no event is produced, the worker stays in its loop, and the next
\* well-formed candle is appended and tested as any other.
C15_MalformedDropped ==
    [][\A w \in DOMAIN workers :
          LET id == workers[w].obj IN
          /\ (~workers[w].dropped /\ workers'[w].dropped)
                => /\ workers'[w] = [workers[w] EXCEPT !.dropped = TRUE]
                   /\ workers'[w].pc = "recv"
                   /\ objs' = objs
                   /\ runs' = runs
                   /\ fed' = fed
                   /\ global_callbacks' = global_callbacks
          /\ (workers[w].dropped /\ ~workers'[w].dropped)
                => /\ fed' = fed + 1
                   /\ \E t \in 1..MaxTs :
                         objs'[id].candle_buffer = DequeAppend(objs[id].candle_buffer, t)
                   /\ workers'[w].pc =
                         IF Len(objs'[id].candle_buffer) >= MinCandles THEN "analyze" ELSE "recv"]_vars

\* C15's case: a running worker that has buffered a candle and then dropped
\* a message.
C15_Witness ==
    \E w \in DOMAIN workers :
        /\ workers[w].pc = "recv"
        /\ workers[w].dropped
        /\ objs[workers[w].obj].is_running
        /\ Len(objs[workers[w].obj].candle_buffer) = 1

\* C16: every stream the manager holds has every global observer in its
\* callback list, whatever add_symbol, remove_symbol and add_global_callback
\* calls came before: add_symbol copies the observers registered so far and
\* add_global_callback appends the new one to every held stream.
C16_HeldStreamsHaveGlobalObservers ==
    \A id \in Held : \A k \in DOMAIN global_callbacks :
        \E j \in DOMAIN objs[id].callbacks : objs[id].callbacks[j] = global_callbacks[k]

\* Two streams were added with one observer registered and the last call,
\* add_global_callback, registered a second one.
C16_Witness ==
    /\ Cardinality(Held) = 2
    /\ Len(global_callbacks) = 2
    /\ workers = <<>>
    /\ calls = 3
    /\ ret = NoRet
    /\ \A id \in Held : objs[id].callbacks = <<1, 2>>

\* A step of the caller that is a call of stop_all_streams: the only call
\* that returns nothing and neither registers an observer nor starts a thread.
StopAllStep ==
    /\ calls' = calls + 1
    /\ ret' = NoRet
    /\ global_callbacks' = global_callbacks
    /\ workers' = workers

\* C17: stop_all_streams sets is_running to False on every stream the manager
\* holds, changes nothing else of any stream and leaves the manager's map
\* empty; on a manager without streams it changes nothing.
C17_StopAllCancelsEverything ==
    [][StopAllStep =>
          /\ \A s \in Symbols : streams'[s] = 0
          /\ DOMAIN objs' = DOMAIN objs
          /\ \A id \in DOMAIN objs :
                objs'[id] = IF id \in Held THEN [objs[id] EXCEPT !.is_running = FALSE]
                                             ELSE objs[id]
          /\ (Held = {} => (streams' = streams /\ objs' = objs))
          /\ global_callbacks' = global_callbacks]_vars

\* stop_all_streams has returned on a manager that held a stream with a
\* connected thread.
C17_Witness ==
    /\ ret = NoRet
    /\ calls = 3
    /\ Held = {}
    /\ Len(objs) = 1
    /\ ~objs[1].is_running
    /\ Len(workers) = 1
    /\ workers[1].pc = "recv"

\* C18: while the buffer of a stream, the candle just appended included,
\* holds fewer candles than the minimum, the candle is only buffered: no
\* thread of the stream is re-scoring or dispatching, no event was emitted
\* and last_signal is unset; every candle appended to a buffer that then
\* holds at least the minimum sends its thread to the re-score.
C18_BelowMinimumOnlyBuffered ==
    [][\A id \in DOMAIN objs :
          LET buf == objs'[id].candle_buffer
              own == {w \in DOMAIN workers : workers[w].obj = id}
          IN /\ Len(buf) < MinCandles =>
                   /\ objs'[id].last_signal = NoSignal
                   /\ runs'[id] = NoRun
                   /\ \A w \in own : workers'[w].pc \in {"start", "recv", "done", "error"}
             /\ (fed' = fed + 1 /\ Len(buf) >= MinCandles) =>
                   \E w \in own : /\ workers[w].pc = "recv"
                                  /\ workers'[w].pc = "analyze"
                                  /\ \A v \in own \ {w} : workers'[v] = workers[v]]_vars

\* A candle was appended and the buffer is still below the minimum.
C18_Witness ==
    \E w \in DOMAIN workers :
        /\ workers[w].pc = "recv"
        /\ fed = MinCandles - 1
        /\ objs[workers[w].obj].is_running
        /\ Len(objs[workers[w].obj].candle_buffer) = MinCandles - 1
        /\ objs[workers[w].obj].last_signal = NoSignal

\* C19: the buffer of a stream never holds two candles with the same start
\* time and its start times are strictly increasing, because a candle whose
\* start time is in the buffer already, or is older than the newest one, is
\* rejected or overwrites its slot.
C19_TimestampsStrictlyIncreasing ==
    \A id \in DOMAIN objs :
        LET buf == objs[id].candle_buffer
        IN \A k \in 1..(Len(buf) - 1) : buf[k] < buf[k + 1]

\* The threads of a stream inside analyze_signals (lines 107-152)
Rescoring(id) == {w \in WorkersOf(id) : workers[w].pc \in {"analyze", "dispatch"}}

\* C20: for each subscription the appends to the buffer and the re-scores are
\* serialized: no candle is appended to the buffer of a stream while a
\* re-score of that stream is in progress, and no two re-scores of one stream
\* are in progress at once. (Stated as the claim states it; two workers on
\* one stream break it.)
C20_AppendAndRescoreSerialized ==
    [][\A id \in DOMAIN objs :
          /\ objs'[id].candle_buffer # objs[id].candle_buffer => Rescoring(id) = {}
          /\ Cardinality(Rescoring(id)) <= 1]_vars

\* C20 restricted to the streams that only ever had one worker: this holds.
SingleWorkerSerialized ==
    [][\A id \in DOMAIN objs :
          Cardinality(WorkersOf(id)) <= 1 =>
             (objs'[id].candle_buffer # objs[id].candle_buffer => Rescoring(id) = {})]_vars

(***************************************************************************)
(* generate_signals over a whole frame                                     *)
(*                                                                         *)
(* df is the caller's frame: a sequence of rows, each a function from the  *)
(* column names to cells, "index" being the label of the row. columns is   *)
(* the set of indicator columns the frame has; a cell of a column that is  *)
(* not in it does not exist. The pattern columns are those                 *)
(* detect_candlestick_patterns computes from the candle.                   *)
(***************************************************************************)
\* Rows of a frame
MaxRows == 2

\* df['OBV'].shift(5), line 110, scaled to the frames of the model
ObvShift == 1

\* The columns each block tests at its if, in the order of the blocks
BlockColumns ==
    [MACD |-> {"MACD_12_26_9", "MACDs_12_26_9"}, EMA |-> {"EMA_20", "EMA_50"},
     ADX |-> {"ADX_14"}, PSAR |-> {"PSARl_0.02_0.2", "PSARs_0.02_0.2"},
     RSI |-> {"RSI_14"}, WILLR |-> {"WILLR_14"}, CCI |-> {"CCI_14_0.015"},
     OBV |-> {"OBV"}, MFI |-> {"MFI_14"}, BB |-> {"BBL_20_2.0", "BBU_20_2.0"},
     KC |-> {"KCLe_20_2", "KCUe_20_2"}]

Columns == UNION {BlockColumns[b] : b \in DOMAIN BlockColumns}

\* An if that passes when either column of the block is in the frame. What
\* Present must not be.
PresentEither(b, columns) == BlockColumns[b] \cap columns # {}

\* The test of a block: lines 49, 57, 64, 70, 81, 92, 99, 109, 116, 130, 137
Present(b, columns) == BlockColumns[b] \subseteq columns

\* df[c] of a block whose test passed raises KeyError when c is not a column
Raises(columns) ==
    \E b \in DOMAIN BlockColumns : Present(b, columns) /\ ~(BlockColumns[b] \subseteq columns)

\* df[c] at row i, and NaN before the first row (what shift() fills in)
Cell(df, columns, i, c) ==
    IF i >= 1 /\ c \in columns THEN df[i][c] ELSE NaN

\* lines 45-74
TrendScoreAt(df, columns, i) ==
      MacdScore(Present("MACD", columns),
                Cell(df, columns, i, "MACD_12_26_9"), Cell(df, columns, i, "MACDs_12_26_9"),
                Cell(df, columns, i - 1, "MACD_12_26_9"), Cell(df, columns, i - 1, "MACDs_12_26_9"))
    + EmaScore(Present("EMA", columns),
               Cell(df, columns, i, "EMA_20"), Cell(df, columns, i, "EMA_50"))
    + AdxScore(Present("ADX", columns), Cell(df, columns, i, "ADX_14"))
    + PsarScore(Present("PSAR", columns), df[i]["close"],
                Cell(df, columns, i, "PSARl_0.02_0.2"), Cell(df, columns, i, "PSARs_0.02_0.2"))

\* lines 76-102
MomentumScoreAt(df, columns, i) ==
      RsiScore(Present("RSI", columns),
               Cell(df, columns, i, "RSI_14"), Cell(df, columns, i - 1, "RSI_14"))
    + WillrScore(Present("WILLR", columns), Cell(df, columns, i, "WILLR_14"))
    + CciScore(Present("CCI", columns), Cell(df, columns, i, "CCI_14_0.015"))

\* lines 104-120
VolumeScoreAt(df, columns, i) ==
      ObvScore(Present("OBV", columns),
               Cell(df, columns, i, "OBV"), Cell(df, columns, i - ObvShift, "OBV"))
    + MfiScore(Present("MFI", columns), Cell(df, columns, i, "MFI_14"))

\* lines 122-142
VolatilityScoreAt(df, columns, i) ==
      BbScore(Present("BB", columns), df[i]["close"],
              Cell(df, columns, i, "BBL_20_2.0"), Cell(df, columns, i, "BBU_20_2.0"))
    + KcScore(Present("KC", columns), df[i]["close"],
              Cell(df, columns, i, "KCLe_20_2"), Cell(df, columns, i, "KCUe_20_2"))

\* lines 144-163
PriceActionScoreAt(df, use_price_action, i) ==
    PriceActionScore(use_price_action, df[i]["bullish_engulfing"],
                     df[i]["bearish_engulfing"], df[i]["hammer"], df[i]["shooting_star"])

\* lines 166-182 for the row whose category scores are in row
Combined(row) ==
    [row EXCEPT !.final_score = FinalScore(row),
                !.signal = SignalOf(FinalScore(row)),
                !.signal_strength = Strength(FinalScore(row))]

\* Row i after lines 45-182, before the texts of lines 185-205 are written
Scored(df, columns, use_price_action, indicator_weights, i) ==
    Combined([index |-> df[i]["index"], indicator_weights |-> indicator_weights,
              trend_score |-> TrendScoreAt(df, columns, i),
              momentum_score |-> MomentumScoreAt(df, columns, i),
              volume_score |-> VolumeScoreAt(df, columns, i),
              volatility_score |-> VolatilityScoreAt(df, columns, i),
              price_action_score |-> PriceActionScoreAt(df, use_price_action, i),
              final_score |-> 0, signal |-> HOLD, signal_strength |-> 0,
              signal_reason |-> <<>>, signal_components |-> <<>>])

\* The names a category appends to its components list, in the order of
\* its blocks
Appended(blocks, columns) ==
    SelectSeq(blocks, LAMBDA b : Present(b, columns))

\* f"{comp}({score:.1f})" for every comp of a category whose score is not
\* 0; the scores are multiples of 0.5, which one decimal shows exactly
Formatted(comps, score) ==
    IF score = 0 THEN <<>> ELSE [k \in DOMAIN comps |-> <<comps[k], score>>]

\* lines 186-196: the components of a row
ComponentsOf(row, columns, use_price_action) ==
       Formatted(Appended(<<"MACD", "EMA", "ADX", "PSAR">>, columns), row.trend_score)
    \o Formatted(Appended(<<"RSI", "WILLR", "CCI">>, columns), row.momentum_score)
    \o Formatted(Appended(<<"OBV", "MFI">>, columns), row.volume_score)
    \o Formatted(Appended(<<"BB", "KC">>, columns), row.volatility_score)
    \o (IF use_price_action
        THEN Formatted(<<"Bullish_Engulfing", "Bearish_Engulfing", "Hammer", "Shooting_Star">>,
                       row.price_action_score)
        ELSE <<>>)

\* f"{final_score:.2f}": thousandths shown in hundredths, to the nearest
TwoDecimals(final_score) ==
    IF final_score >= 0 THEN (final_score + 5) \div 10 ELSE -((5 - final_score) \div 10)

\* lines 200-205: the reason of a row
ReasonOf(row) ==
    <<IF row.signal = BUY THEN "Bullish confluence"
      ELSE IF row.signal = SELL THEN "Bearish confluence" ELSE "Neutral",
      TwoDecimals(row.final_score)>>

\* The last row that carries the label of row i: lines 198-205 write the
\* texts with df.loc[df.index[i], ...], that is to every row of that label,
\* so the texts a row keeps are those written for the last such row.
LastOfLabel(df, i) ==
    CHOOSE j \in DOMAIN df :
        /\ df[j]["index"] = df[i]["index"]
        /\ \A k \in DOMAIN df : df[k]["index"] = df[i]["index"] => k <= j

\* The row of the returned frame at position i, given the scored rows
Written(rows, columns, use_price_action, i, j) ==
    [rows[i] EXCEPT !.signal_reason = ReasonOf(rows[j]),
                    !.signal_components = ComponentsOf(rows[j], columns, use_price_action)]

\* The frame generate_signals returns once every row is scored
Returned(df, rows, columns, use_price_action) ==
    [i \in DOMAIN df |-> Written(rows, columns, use_price_action, i, LastOfLabel(df, i))]

\* generate_signals(df, use_price_action, indicator_weights): what the call
\* returns, or the exception it raises
generate_signals(df, columns, use_price_action, indicator_weights) ==
    IF Raises(columns) THEN [raised |-> "KeyError", rows |-> <<>>]
    ELSE [raised |-> "",
          rows |-> Returned(df,
                      [i \in DOMAIN df |->
                          Scored(df, columns, use_price_action, indicator_weights, i)],
                      columns, use_price_action)]

\* A row on which no sub-signal fires after a row like itself
Quiet ==
    [c \in Columns |-> Num(100)] @@
    ("index" :> 1) @@ ("close" :> 100) @@ ("bullish_engulfing" :> FALSE) @@
    ("bearish_engulfing" :> FALSE) @@ ("hammer" :> FALSE) @@ ("shooting_star" :> FALSE)

\* The row r with the cells of cells
With(cells, r) == cells @@ r

\* Rows of a frame: one that fires nothing, one with EMA_20 above EMA_50, a
\* strong ADX, MACD above its signal and an overbought RSI, one on which
\* every sub-signal is bullish, one on which every sub-signal is bearish
FrameRows ==
    LET calm == With(("MACD_12_26_9" :> Num(0)) @@ ("MACDs_12_26_9" :> Num(1)) @@
                     ("ADX_14" :> Num(20)) @@ ("PSARl_0.02_0.2" :> NaN) @@
                     ("PSARs_0.02_0.2" :> NaN) @@ ("RSI_14" :> Num(60)) @@
                     ("WILLR_14" :> Num(-50)) @@ ("CCI_14_0.015" :> Num(0)) @@
                     ("MFI_14" :> Num(50)) @@ ("BBL_20_2.0" :> Num(90)) @@
                     ("BBU_20_2.0" :> Num(110)) @@ ("KCLe_20_2" :> Num(90)) @@
                     ("KCUe_20_2" :> Num(110)), Quiet)
    IN [calm |-> calm,
        mixed |-> With(("MACD_12_26_9" :> Num(1)) @@ ("MACDs_12_26_9" :> Num(0)) @@
                       ("EMA_20" :> Num(105)) @@ ("ADX_14" :> Num(30)) @@
                       ("RSI_14" :> Num(72)), calm),
        bull |-> With(("MACD_12_26_9" :> Num(1)) @@ ("MACDs_12_26_9" :> Num(0)) @@
                      ("EMA_20" :> Num(105)) @@ ("ADX_14" :> Num(30)) @@
                      ("PSARl_0.02_0.2" :> Num(90)) @@ ("RSI_14" :> Num(25)) @@
                      ("WILLR_14" :> Num(-90)) @@ ("CCI_14_0.015" :> Num(-150)) @@
                      ("OBV" :> Num(200)) @@ ("MFI_14" :> Num(10)) @@
                      ("BBL_20_2.0" :> Num(110)) @@ ("BBU_20_2.0" :> Num(120)) @@
                      ("KCLe_20_2" :> Num(110)) @@ ("KCUe_20_2" :> Num(120)) @@
                      ("bullish_engulfing" :> TRUE) @@ ("hammer" :> TRUE), calm),
        bear |-> With(("MACD_12_26_9" :> Num(0)) @@ ("MACDs_12_26_9" :> Num(1)) @@
                      ("EMA_20" :> Num(95)) @@ ("ADX_14" :> Num(30)) @@
                      ("PSARs_0.02_0.2" :> Num(110)) @@ ("RSI_14" :> Num(75)) @@
                      ("WILLR_14" :> Num(-10)) @@ ("CCI_14_0.015" :> Num(150)) @@
                      ("OBV" :> Num(50)) @@ ("MFI_14" :> Num(90)) @@
                      ("BBL_20_2.0" :> Num(80)) @@ ("BBU_20_2.0" :> Num(90)) @@
                      ("KCLe_20_2" :> Num(80)) @@ ("KCUe_20_2" :> Num(90)) @@
                      ("bearish_engulfing" :> TRUE) @@ ("shooting_star" :> TRUE), calm)]

\* The labels of n rows: those of a series in feed order, in which a label
\* may repeat (a buffer holds a candle twice when the feed sent it twice)
LabelsOf(n) ==
    {l \in [1..n -> 1..n] : l[1] = 1 /\ \A k \in 2..n : l[k] \in {l[k - 1], l[k - 1] + 1}}

\* The frames of n rows
FramesOf(n) ==
    {[k \in 1..n |-> With("index" :> l[k], FrameRows[names[k]])] :
        names \in [1..n -> DOMAIN FrameRows], l \in LabelsOf(n)}

\* A call of generate_signals that has not returned; first is what an
\* earlier call with the same arguments returned
FramePending(df, columns, use_price_action, indicator_weights, first) ==
    [pc |-> "call", df |-> df, columns |-> columns,
     use_price_action |-> use_price_action, indicator_weights |-> indicator_weights,
     out |-> <<>>, first |-> first]

\* The calls: every frame of full columns with either flag and either
\* weights, and the frame of a calm and a bullish row with every set of
\* columns
InitFrame ==
    /\ StreamingIdle
    /\ mtf = MtfIdle
    /\ \/ \E n \in 1..MaxRows : \E df \in FramesOf(n) :
             \E use_price_action \in BOOLEAN, indicator_weights \in IndicatorWeights :
                gs = FramePending(df, Columns, use_price_action, indicator_weights, <<>>)
       \/ \E columns \in SUBSET Columns :
             gs = FramePending(<<FrameRows.calm, With("index" :> 2, FrameRows.bull)>>,
                               columns, TRUE, DefaultWeights, <<>>)

\* A generate_signals without the copy of line 17: the columns of lines
\* 30-33 are written to the caller's frame. What FrameCall must not be.
FrameCallInPlace ==
    /\ gs.pc = "call"
    /\ gs' = [gs EXCEPT !.pc = "done",
                        !.columns = @ \cup {"signal", "signal_strength",
                                            "signal_reason", "signal_components"},
                        !.out = generate_signals(gs.df, gs.columns, gs.use_price_action,
                                                 gs.indicator_weights)]
    /\ UNCHANGED <<streamVars, mtf>>

\* A generate_signals whose component lists outlive the call: a later call
\* appends to what an earlier one left. What FrameCall must not be.
FrameCallRemembering ==
    /\ gs.pc = "call"
    /\ LET out == generate_signals(gs.df, gs.columns, gs.use_price_action,
                                   gs.indicator_weights)
       IN gs' = [gs EXCEPT !.pc = "done",
                    !.out = IF gs.first = <<>> THEN out
                            ELSE [out EXCEPT !.rows =
                                    [i \in DOMAIN out.rows |->
                                        [out.rows[i] EXCEPT !.signal_components =
                                            gs.first[1].rows[i].signal_components \o @]]]]
    /\ UNCHANGED <<streamVars, mtf>>

\* generate_signals runs on a copy of the caller's frame (line 17) and
\* returns
FrameCall ==
    /\ gs.pc = "call"
    /\ gs' = [gs EXCEPT !.pc = "done",
                        !.out = generate_signals(gs.df, gs.columns, gs.use_price_action,
                                                 gs.indicator_weights)]
    /\ UNCHANGED <<streamVars, mtf>>

\* The caller calls again with the same arguments
FrameCallAgain ==
    /\ gs.pc = "done"
    /\ gs.first = <<>>
    /\ gs' = FramePending(gs.df, gs.columns, gs.use_price_action, gs.indicator_weights,
                          <<gs.out>>)
    /\ UNCHANGED <<streamVars, mtf>>

NextFrame ==
    \/ FrameCall
    \/ FrameCallAgain

SpecFrame == InitFrame /\ [][NextFrame]_vars

\* C21: generate_signals returns one scored row per row of its input, in
\* the same order and under the same labels, and leaves the caller's frame
\* as it was.
C21_OneRowPerInputRow ==
    [][(gs.pc = "call" /\ gs'.pc = "done") =>
          /\ gs'.out.raised = ""
          /\ Len(gs'.out.rows) = Len(gs.df)
          /\ \A i \in DOMAIN gs.df : gs'.out.rows[i].index = gs.df[i]["index"]
          /\ gs'.df = gs.df
          /\ gs'.columns = gs.columns]_vars

\* A frame of two rows has come back as two rows, a HOLD and a BUY.
C21_Witness ==
    /\ gs.pc = "done"
    /\ gs.columns = Columns
    /\ Len(gs.df) = 2
    /\ Len(gs.out.rows) = 2
    /\ gs.out.rows[1].index = 1 /\ gs.out.rows[1].signal = HOLD
    /\ gs.out.rows[2].index = 2 /\ gs.out.rows[2].signal = BUY

\* What block b adds to its category score at row i of a frame that has
\* every column
Contribution(df, b, i) ==
    LET at(c) == df[i][c]
        before(c, n) == IF i - n >= 1 THEN df[i - n][c] ELSE NaN
    IN CASE b = "MACD" -> MacdScore(TRUE, at("MACD_12_26_9"), at("MACDs_12_26_9"),
                                    before("MACD_12_26_9", 1), before("MACDs_12_26_9", 1))
         [] b = "EMA" -> EmaScore(TRUE, at("EMA_20"), at("EMA_50"))
         [] b = "ADX" -> AdxScore(TRUE, at("ADX_14"))
         [] b = "PSAR" -> PsarScore(TRUE, at("close"), at("PSARl_0.02_0.2"), at("PSARs_0.02_0.2"))
         [] b = "RSI" -> RsiScore(TRUE, at("RSI_14"), before("RSI_14", 1))
         [] b = "WILLR" -> WillrScore(TRUE, at("WILLR_14"))
         [] b = "CCI" -> CciScore(TRUE, at("CCI_14_0.015"))
         [] b = "OBV" -> ObvScore(TRUE, at("OBV"), before("OBV", ObvShift))
         [] b = "MFI" -> MfiScore(TRUE, at("MFI_14"))
         [] b = "BB" -> BbScore(TRUE, at("close"), at("BBL_20_2.0"), at("BBU_20_2.0"))
         [] b = "KC" -> KcScore(TRUE, at("close"), at("KCLe_20_2"), at("KCUe_20_2"))

\* The sum of what the blocks of a category that have their columns add
FromPresent(df, blocks, columns, i) ==
    SumOver({b \in blocks : BlockColumns[b] \subseteq columns},
            [b \in blocks |-> Contribution(df, b, i)])

\* C22: whatever indicator columns the frame lacks, generate_signals raises
\* nothing, a sub-signal that lacks a column adds 0 to its category score and
\* the others add what they add when every column is there.
C22_AbsentColumnsAddNothing ==
    gs.pc = "done" =>
        /\ gs.out.raised = ""
        /\ \A i \in DOMAIN gs.df :
              /\ gs.out.rows[i].trend_score =
                    FromPresent(gs.df, {"MACD", "EMA", "ADX", "PSAR"}, gs.columns, i)
              /\ gs.out.rows[i].momentum_score =
                    FromPresent(gs.df, {"RSI", "WILLR", "CCI"}, gs.columns, i)
              /\ gs.out.rows[i].volume_score =
                    FromPresent(gs.df, {"OBV", "MFI"}, gs.columns, i)
              /\ gs.out.rows[i].volatility_score =
                    FromPresent(gs.df, {"BB", "KC"}, gs.columns, i)

\* A frame without the MACD signal line and without the RSI was scored: of
\* the trend only EMA, ADX and PSAR count, of the momentum WILLR and CCI.
C22_Witness ==
    /\ gs.pc = "done"
    /\ gs.columns = Columns \ {"MACDs_12_26_9", "RSI_14"}
    /\ gs.out.raised = ""
    /\ gs.out.rows[2].trend_score = 25
    /\ gs.out.rows[2].momentum_score = 20
    /\ gs.out.rows[2].signal = BUY

MixedRow(df, columns, use_price_action, i) ==
    /\ BlockColumns["EMA"] \cup BlockColumns["ADX"] \cup BlockColumns["MACD"]
          \cup BlockColumns["RSI"] \subseteq columns
    /\ GT(df[i]["EMA_20"], df[i]["EMA_50"])
    /\ GT(df[i]["ADX_14"], Num(25))
    /\ Contribution(df, "MACD", i) = 20
    /\ GT(df[i]["RSI_14"], Num(70))
    /\ Contribution(df, "RSI", i) = -20
    /\ \A b \in DOMAIN BlockColumns \ {"EMA", "ADX", "MACD", "RSI"} :
          BlockColumns[b] \subseteq columns => Contribution(df, b, i) = 0
    /\ PriceActionScoreAt(df, use_price_action, i) = 0

\* C24: with the default weights the total of a row is 0.30 trend + 0.25
\* momentum + 0.20 volume + 0.15 volatility + 0.10 price action; on the row
\* of MixedRow the trend score is at least 2.5, the momentum score at most 0,
\* the total below 1.5 and the direction HOLD.
C24_DefaultWeightsMixedRowHolds ==
    (gs.pc = "done" /\ gs.indicator_weights = DefaultWeights) =>
        \A i \in DOMAIN gs.out.rows :
            LET row == gs.out.rows[i]
            IN /\ row.final_score = 30 * row.trend_score + 25 * row.momentum_score
                                    + 20 * row.volume_score + 15 * row.volatility_score
                                    + 10 * row.price_action_score
               /\ MixedRow(gs.df, gs.columns, gs.use_price_action, i) =>
                     /\ row.trend_score >= 25
                     /\ row.momentum_score <= 0
                     /\ row.final_score < 1500
                     /\ row.signal = HOLD

\* The row of C24 was scored after a calm row: trend 3.5, momentum -2, total
\* 0.55, HOLD.
C24_Witness ==
    /\ gs.pc = "done"
    /\ gs.indicator_weights = DefaultWeights
    /\ Len(gs.df) = 2
    /\ MixedRow(gs.df, gs.columns, gs.use_price_action, 2)
    /\ gs.out.rows[2].trend_score = 35
    /\ gs.out.rows[2].momentum_score = -20
    /\ gs.out.rows[2].final_score = 550
    /\ gs.out.rows[2].signal = HOLD


\* Every entry reports the same direction, BUY or SELL, with the same
\* signal_strength
Unanimous(mtf_results) ==
    /\ mtf_results # <<>>
    /\ mtf_results[1].signal # HOLD
    /\ \A i \in DOMAIN mtf_results :
          /\ mtf_results[i].signal = mtf_results[1].signal
          /\ mtf_results[i].signal_strength = mtf_results[1].signal_strength

\* C25: when every analysed timeframe reports the same direction, BUY or
\* SELL, with the same strength s, confluence_score is +s for BUY and -s for
\* SELL whatever the weights are.
C25_UnanimousScoreIsStrength ==
    mtf.pc = "done" /\ Unanimous(mtf.mtf_results) =>
        mtf.out.confluence_score
            = IF mtf.mtf_results[1].signal = BUY
              THEN mtf.mtf_results[1].signal_strength
              ELSE FNeg(mtf.mtf_results[1].signal_strength)


\* The confluence calculation never runs on an empty result of the analysis,
\* and the CLI reports that there is no data
NoDataNeverScored ==
    mtf.caller \in Callers =>
        /\ mtf.pc \in {"confluence", "done"} => mtf.mtf_results # <<>>
        /\ mtf.pc = "nodata" /\ mtf.caller = "cli" =>
               mtf.answer = "No data available for multi-timeframe analysis"

\* C26: when no requested timeframe yields data the caller gets a distinct
\* "no data" outcome: the CLI reports no data and returns, the /mtf endpoint
\* answers 404, and calculate_mtf_confluence is not called on the empty
\* result.
C26_NoDataIsDistinctOutcome ==
    /\ NoDataNeverScored
    /\ mtf.caller = "api" /\ mtf.pc = "nodata" => mtf.answer = "404"


\* What a step leaves of worker w, whose connection failed or fails in the
\* step, and of its stream: the thread has ended, the stream is not running,
\* its buffer and last_signal stay as they are and no event is dispatched
FailedStays(w) ==
    LET id == workers[w].obj
    IN /\ workers'[w].pc = "error"
       /\ ~objs'[id].is_running
       /\ objs'[id].candle_buffer = objs[id].candle_buffer
       /\ objs'[id].last_signal = objs[id].last_signal
       /\ runs'[id] = runs[id]

\* The step in which the connection of worker w fails changes nothing but
\* the position of w and the is_running flag of its stream
FailureIsolated(w) ==
    LET id == workers[w].obj
    IN /\ objs' = [objs EXCEPT ![id].is_running = FALSE]
       /\ \A v \in DOMAIN workers \ {w} : workers'[v] = workers[v]
       /\ runs' = runs

\* C27: a feed or transport failure on one subscription puts only that
\* subscription into a terminal state: is_running is False and stays so, no
\* further candle is processed and no further event dispatched for it; the
\* buffers, last_signal, is_running and the dispatches of the other
\* subscriptions are as they were, and the worker ends in its own except
\* clause.
C27_FeedFailureIsTerminalAndIsolated ==
    [][\A w \in DOMAIN workers :
          /\ (workers[w].pc # "error" /\ workers'[w].pc = "error") =>
                FailureIsolated(w) /\ FailedStays(w)
          /\ workers[w].pc = "error" => FailedStays(w)]_vars

\* The same for the streams that only one thread was ever started on
SingleWorkerFailureTerminal ==
    [][\A w \in DOMAIN workers :
          Cardinality({v \in DOMAIN workers' : workers'[v].obj = workers[w].obj}) <= 1 =>
             /\ (workers[w].pc # "error" /\ workers'[w].pc = "error") =>
                   FailureIsolated(w) /\ FailedStays(w)
             /\ workers[w].pc = "error" => FailedStays(w)]_vars


\* The threads of stream id that hold a connection: they read the feed into
\* the buffer of the stream, re-score it and dispatch its events
Connected(id) ==
    {w \in WorkersOf(id) : workers[w].pc \in {"recv", "analyze", "dispatch", "commit"}}

\* C28: a subscription has at most one running worker: start_all_streams (or
\* start_streaming) called again while the worker of a stream is running
\* starts no second worker feeding the same buffer and dispatching events
\* for the same stream.
C28_AtMostOneRunningWorker ==
    \A id \in DOMAIN objs : Cardinality(Connected(id)) <= 1


\* C29: a stop request is never lost: when stop_streaming was called on a
\* stream whose thread is started but has not connected yet, the thread ends
\* without processing a candle or dispatching an event, and is_running is
\* False and stays False.
C29_StopBeforeConnectIsKept ==
    [][\A w \in DOMAIN workers :
          (workers[w].pc = "start" /\ workers[w].obj \in Stopped) =>
             /\ workers'[w].pc \in {"start", "done", "error"}
             /\ ~objs'[workers[w].obj].is_running]_vars


(***************************************************************************)
(* simple_backtest: the replay of a scored frame                           *)
(*                                                                         *)
(* gs holds the call: df is the frame generate_signals returned at line    *)
(* 20, a sequence of rows with a close and a signal, the timestamp of a    *)
(* row being its place; i is the row the loop of line 29 is at. balance,   *)
(* entry_price, prices and pnl are floats, and every *, /, + and - is the  *)
(* float operation with its rounding.                                      *)
(***************************************************************************)
\* Rows of the scored frame
MaxBars == 3

\* line 7: the defaults of the parameters
initial_balance == 10000
transaction_fee == FLit(1, 1000)

BarCloses == {100, 110}

Bars == [close : BarCloses, signal : {BUY, SELL, HOLD}]

ScoredFrames == UNION {[1..n -> Bars] : n \in 0..MaxBars}

FSub(a, b) ==
    FAdd(a, FNeg(b))

\* lines 37, 69 and 94: balance * (current_price / entry_price)
LongValue(balance, current_price, entry_price) ==
    FMul(balance, FDiv(current_price, entry_price))

\* lines 39, 46 and 96: balance * (2 - current_price / entry_price)
ShortValue(balance, current_price, entry_price) ==
    FMul(balance, FSub(FOfInt(2), FDiv(current_price, entry_price)))

\* lines 34-39
CurrentValue(position, balance, current_price, entry_price) ==
    IF position = 0 THEN balance
    ELSE IF position = 1 THEN LongValue(balance, current_price, entry_price)
    ELSE ShortValue(balance, current_price, entry_price)

\* The dict appended to trades
Trade(timestamp, action, price, pnl, balance) ==
    [timestamp |-> timestamp, action |-> action, price |-> price,
     pnl |-> pnl, balance |-> balance]

\* lines 46-54, 69-77 and 97-104: balance = balance + pnl and the trade of
\* the close
Settled(b, action, timestamp, price, balance, pnl) ==
    [b EXCEPT !.balance = balance,
              !.trades = Append(@, Trade(timestamp, action, price, pnl, balance))]

\* lines 45-54, 68-77 and 93-104: the position held is closed at price
Closed(b, action, timestamp, price) ==
    IF b.position = 0 THEN b
    ELSE Settled(b, action, timestamp, price,
            CurrentValue(b.position, b.balance, price, b.entry_price),
            FSub(CurrentValue(b.position, b.balance, price, b.entry_price), b.balance))

\* lines 57-65 and 80-88: a position is opened
Opened(b, action, position, timestamp, price, entry_price) ==
    [b EXCEPT !.entry_price = entry_price,
              !.position = position,
              !.trades = Append(@, Trade(timestamp, action, price, FZero, b.balance))]

\* A replay that trades on a signal only when no position is held. What
\* Traded must not be.
TradedWhenFlat(b, timestamp, price, signal) ==
    IF signal = 1 /\ b.position = 0
    THEN Opened(b, "buy", 1, timestamp, price,
                FMul(price, FAdd(FOfInt(1), transaction_fee)))
    ELSE IF signal = -1 /\ b.position = 0
    THEN Opened(b, "sell", -1, timestamp, price,
                FMul(price, FSub(FOfInt(1), transaction_fee)))
    ELSE b

\* lines 44-88: the trades of one row
Traded(b, timestamp, price, signal) ==
    IF signal = 1 /\ b.position <= 0
    THEN Opened(Closed(b, "close_short", timestamp, price), "buy", 1, timestamp, price,
                FMul(price, FAdd(FOfInt(1), transaction_fee)))
    ELSE IF signal = -1 /\ b.position >= 0
    THEN Opened(Closed(b, "close_long", timestamp, price), "sell", -1, timestamp, price,
                FMul(price, FSub(FOfInt(1), transaction_fee)))
    ELSE b

\* lines 30-41: the value of the portfolio at the row, before its trades
Valued(b, price) ==
    [b EXCEPT !.portfolio_value =
        Append(@, CurrentValue(b.position, b.balance, price, b.entry_price))]

\* simple_backtest(symbol) at line 14, df being what lines 14-20 give when
\* the fetch succeeds
BacktestPending(df) ==
    [pc |-> "fetch", df |-> df, i |-> 1, balance |-> FOfInt(initial_balance),
     position |-> 0, entry_price |-> FZero, trades |-> <<>>,
     portfolio_value |-> <<>>]

\* lines 14-27: fetch_candles returns None and the function returns None, or
\* the frame is scored and the replay starts
BacktestFetch ==
    /\ gs.pc = "fetch"
    /\ \E fetched \in BOOLEAN :
          gs' = [gs EXCEPT !.pc = IF fetched THEN "replay" ELSE "none"]
    /\ UNCHANGED <<streamVars, mtf>>

\* lines 29-88: one iteration of the loop
BacktestRow ==
    /\ gs.pc = "replay"
    /\ gs.i <= Len(gs.df)
    /\ gs' = [Traded(Valued(gs, FOfInt(gs.df[gs.i].close)), gs.i,
                     FOfInt(gs.df[gs.i].close), gs.df[gs.i].signal)
                 EXCEPT !.i = gs.i + 1]
    /\ UNCHANGED <<streamVars, mtf>>

\* lines 91-104: after the last row
BacktestClose ==
    /\ gs.pc = "replay"
    /\ gs.i > Len(gs.df)
    /\ gs' = [(IF gs.position = 0 THEN gs
               ELSE Closed(gs, "close_final", Len(gs.df),
                           FOfInt(gs.df[Len(gs.df)].close)))
                 EXCEPT !.pc = "closed"]
    /\ UNCHANGED <<streamVars, mtf>>

InitBacktest ==
    /\ StreamingIdle
    /\ mtf = MtfIdle
    /\ \E df \in ScoredFrames : gs = BacktestPending(df)

NextBacktest ==
    \/ BacktestFetch
    \/ BacktestRow
    \/ BacktestClose

SpecBacktest == InitBacktest /\ [][NextBacktest]_vars

\* The trades a step appended
NewTrades == SubSeq(gs'.trades, Len(gs.trades) + 1, Len(gs'.trades))

\* Nothing of the position changes in the step
Untouched ==
    /\ gs'.position = gs.position
    /\ gs'.entry_price = gs.entry_price
    /\ gs'.balance = gs.balance
    /\ gs'.trades = gs.trades

\* The first trade appended closes the position held: its pnl is added to
\* the balance, and it is a gain exactly when the price moved the way of
\* the position
ClosesFirst(action, price) ==
    /\ NewTrades[1].action = action
    /\ NewTrades[1].price = price
    /\ gs'.balance = FAdd(gs.balance, NewTrades[1].pnl)
    /\ NewTrades[1].balance = gs'.balance
    /\ FPositive(NewTrades[1].pnl)
          <=> IF gs.position = 1 THEN FGt(price, gs.entry_price)
              ELSE FLt(price, gs.entry_price)

\* C30: in the replay the position is -1, 0 or 1 and follows the signal:
\* after a BUY row it is 1, after a SELL row -1; a HOLD row, or a signal in
\* the direction held, leaves position, entry price, balance and trades as
\* they are; an opposite position is closed, its pnl added to the balance,
\* before the new one is opened; a position open after the last row is
\* closed by one final trade.
C30_PositionFollowsSignal ==
    [][/\ gs'.position \in {-1, 0, 1}
       /\ (gs.pc = "replay" /\ gs'.pc = "replay") =>
             LET row == gs.df[gs.i]
                 price == FOfInt(row.close)
             IN /\ row.signal = BUY => gs'.position = 1
                /\ row.signal = SELL => gs'.position = -1
                /\ (row.signal = HOLD \/ row.signal = gs.position) => Untouched
                /\ (row.signal # HOLD /\ gs.position = 0) =>
                      /\ Len(NewTrades) = 1
                      /\ gs'.balance = gs.balance
                /\ (row.signal # HOLD /\ gs.position = -row.signal) =>
                      /\ Len(NewTrades) = 2
                      /\ ClosesFirst(IF gs.position = 1 THEN "close_long"
                                     ELSE "close_short", price)
                      /\ NewTrades[2].balance = gs'.balance
                /\ (row.signal # HOLD /\ gs.position # row.signal) =>
                      /\ NewTrades[Len(NewTrades)].action
                            = (IF row.signal = BUY THEN "buy" ELSE "sell")
                      /\ NewTrades[Len(NewTrades)].pnl = FZero
       /\ (gs.pc = "replay" /\ gs'.pc = "closed") =>
             IF gs.position = 0 THEN Untouched
             ELSE /\ Len(NewTrades) = 1
                  /\ ClosesFirst("close_final", FOfInt(gs.df[Len(gs.df)].close))]_vars

\* A replay that ended with a final close after a short position was closed
\* and a long one opened by a BUY row.
C30_Witness ==
    /\ gs.pc = "closed"
    /\ Len(gs.trades) >= 4
    /\ gs.trades[Len(gs.trades)].action = "close_final"
    /\ \E k \in 1..(Len(gs.trades) - 1) :
          /\ gs.trades[k].action = "close_short"
          /\ gs.trades[k + 1].action = "buy"

====
